---- MODULE Spec2Model ----
(***************************************************************************)
(* Model of the markdowngg document service: the in-memory rate limiter    *)
(* (src/lib/rate-limit.ts), the route handlers POST /api/documents and     *)
(* GET/PUT /api/documents/[id], the documents table they act on, the       *)
(* encryption utilities and the editor page that uses them.                *)
(*                                                                         *)
(* Specifications:                                                         *)
(*   SpecRL    checkRateLimit alone, called for arbitrary (identifier,     *)
(*             endpoint) pairs, with the clock and the periodic sweep;     *)
(*   Spec      the three route handlers, each split at its await points,   *)
(*             running concurrently against the table and the limiter;     *)
(*   SpecQuota the same handlers as the limiter sees them;                 *)
(*   SpecIp    creates and reads under every case of the proxy headers;    *)
(*   SpecCrypto  runs of the encryption utilities: encrypt, decrypt, the   *)
(*             key and the write token;                                    *)
(*   SpecHistory saveToHistory and removeFromHistory in any order;         *)
(*   SpecClient  the editor page sharing, loading and saving a document    *)
(*             through the handlers;                                       *)
(*   SpecLoads the editor page loading and saving stored documents, its    *)
(*             loads overlapping;                                          *)
(*   SpecCodec the capability fragment written and read back.              *)
(***************************************************************************)
EXTENDS Integers, Sequences, FiniteSets, TLC

VARIABLES
    now,          \* Date.now(), in model time units
    requestLog,   \* rate-limit.ts:22, Map<string, RequestLog>
    docs,         \* the documents table: a set of rows
    reqs,         \* the handler invocations in flight, one per slot
    lastCall,     \* history: the checkRateLimit call the last step made, if any
    win,          \* history: per pair, the window the claims speak of
    admits,       \* history: per pair, times of the admissions of the last interval
    nCalls,       \* history: number of checkRateLimit calls made
    last,         \* history: the response the last step sent, if any
    created,      \* history: per document id, the writeTokenHash its create asked for,
                  \* the row its create inserted, the contents of its acknowledged
                  \* writes in order, and whether two updates of it overlapped
    rejection,    \* history: per pair, the 429 response of its last call, if rejected
    editor,       \* the editor page in one browser tab (page.tsx)
    cr,           \* one run of the client's utilities (the encryption utilities,
                  \* the capability fragment, the document history): inputs
                  \* and results; under SpecIp, the headers of the requests made
    localStorage  \* the browser's localStorage: its item "document_history", parsed

vars == <<now, requestLog, docs, reqs, lastCall, win, admits, nCalls, last, created, rejection,
          editor, cr, localStorage>>

\* The state of the browser, which the server never touches.
browser == <<editor, cr, localStorage>>

-----------------------------------------------------------------------------
(* Bounds of the model.                                                    *)

\* The policy table of rate-limit.ts:37-53 is 10 / 30 / 100 requests per
\* 60 * 60 * 1000 ms.  The model keeps the table's shape and order and scales
\* the numbers; every property below is stated over the names.
INTERVAL == 2
CREATE_MAX == 1
UPDATE_MAX == 2
GET_MAX == 3

\* The clock runs from 0 to MaxNow.
MaxNow == 3
\* A key takes calls until its count is MaxOver past its limit.
MaxOver == 2
\* SpecRL makes at most MaxCalls calls.
MaxCalls == 5
\* The clock counts milliseconds and a second is 1000 of them; the model's
\* second is SECOND ticks, and the interval stays a whole number of seconds.
SECOND == 2

-----------------------------------------------------------------------------
(* rate-limit.ts: the policy table and checkRateLimit.                     *)

RATE_LIMITS ==
    [ CREATE_DOCUMENT |-> [interval |-> INTERVAL, maxRequests |-> CREATE_MAX],
      UPDATE_DOCUMENT |-> [interval |-> INTERVAL, maxRequests |-> UPDATE_MAX],
      GET_DOCUMENT    |-> [interval |-> INTERVAL, maxRequests |-> GET_MAX] ]

\* The endpoint names the handlers pass, with the policy each passes with it.
Endpoints == {"create_document", "update_document", "get_document"}

ConfigOf(endpoint) ==
    CASE endpoint = "create_document" -> RATE_LIMITS.CREATE_DOCUMENT
      [] endpoint = "update_document" -> RATE_LIMITS.UPDATE_DOCUMENT
      [] endpoint = "get_document"    -> RATE_LIMITS.GET_DOCUMENT

Max(a, b) == IF a >= b THEN a ELSE b

\* Map<K, V> as the set of its <<key, value>> entries, one per key:
\* new Map(), has, get, set.
EmptyMap == {}
Has(map, key) == \E p \in map : p[1] = key
Get(map, key) == (CHOOSE p \in map : p[1] = key)[2]
MapSet(map, key, value) == {p \in map : p[1] # key} \cup {<<key, value>>}

\* const key = `${identifier}:${endpoint}`
\* (variant: a key that leaves the endpoint out)
KeyIgnoringEndpoint(identifier, endpoint) == identifier \o ":"
RateLimitKey(identifier, endpoint) == identifier \o ":" \o endpoint

\* !log || log.resetTime <= now
\* (variant: a window that is still live at its resetTime)
ExpiredStrictly(log, key, t) == ~Has(log, key) \/ Get(log, key).resetTime < t
WindowExpired(log, key, t) == ~Has(log, key) \/ Get(log, key).resetTime <= t

\* log.count++ on the entry held by the map
\* (variant: a count that ignores rejected calls)
IncrementWhenAdmitted(entry, config) ==
    IF entry.count <= config.maxRequests
    THEN [entry EXCEPT !.count = @ + 1] ELSE entry
\* (variant: every call moves the end of the window on)
IncrementExtending(entry, config) ==
    [entry EXCEPT !.count = @ + 1, !.resetTime = now + config.interval]
Increment(entry, config) == [entry EXCEPT !.count = @ + 1]

\* success = log.count <= config.maxRequests
Success(count, config) == count <= config.maxRequests

\* remaining = Math.max(0, config.maxRequests - log.count)
\* (variant: the difference as it stands)
RemainingUnclamped(count, config) == config.maxRequests - count
Remaining(count, config) == Max(0, config.maxRequests - count)

\* The window a call at time t finds or opens.
\* (variant: every call opens a window, forgetting the calls before it)
FreshWindowEveryCall(log, key, config, t) ==
    [count |-> 0, resetTime |-> t + config.interval]
\* (variant: a window one tick shorter than the interval)
WindowTooShort(log, key, config, t) ==
    IF WindowExpired(log, key, t)
    THEN [count |-> 0, resetTime |-> t + config.interval - 1]
    ELSE Get(log, key)
CurrentWindow(log, key, config, t) ==
    IF WindowExpired(log, key, t)
    THEN [count |-> 0, resetTime |-> t + config.interval]
    ELSE Get(log, key)

\* checkRateLimit(identifier, endpoint, config) at Date.now() = t on the map
\* log: the map afterwards and the object returned.
checkRateLimit(log, identifier, endpoint, config, t) ==
    LET key == RateLimitKey(identifier, endpoint)
        entry == Increment(CurrentWindow(log, key, config, t), config)
    IN  [ log |-> MapSet(log, key, entry),
          result |-> [ success |-> Success(entry.count, config),
                       limit |-> config.maxRequests,
                       remaining |-> Remaining(entry.count, config),
                       reset |-> entry.resetTime ] ]

\* new Date(ms).toUTCString(), read back as a time: the date to the second,
\* the milliseconds dropped.
toUTCString(ms) == ms - (ms % SECOND)

\* Math.ceil(ms / 1000), for ms >= 0
CeilSeconds(ms) == (ms + SECOND - 1) \div SECOND

\* createRateLimitResponse(limit, remaining, reset), with Date.now() = t
createRateLimitResponse(limit, remaining, reset, t) ==
    [ status |-> 429,
      body |-> [limit |-> limit, remaining |-> 0, reset |-> toUTCString(reset)],
      headers |-> [ XRateLimitLimit |-> limit,
                    XRateLimitRemaining |-> 0,
                    XRateLimitReset |-> reset,
                    RetryAfter |-> CeilSeconds(reset - t) ] ]

\* The setInterval callback: delete every entry with resetTime < now.
\* (variant: the comparison turned round, the entries still running deleted)
SweptLive(log, t) == {p \in log : ~(p[2].resetTime > t)}
Swept(log, t) == {p \in log : ~(p[2].resetTime < t)}

-----------------------------------------------------------------------------
(* History kept beside the program's state, to state the claims.           *)

NoCall ==
    [ identifier |-> "", endpoint |-> "",
      result |-> [success |-> FALSE, limit |-> 0, remaining |-> 0, reset |-> 0] ]

\* The browser before anything ran in it.
NoEditor == [pc |-> "unused"]
NoRun == [pc |-> "unused"]

NoResponse ==
    [ method |-> "", id |-> "", status |-> 0,
      content |-> [kind |-> "undefined", text |-> "", length |-> 0], token |-> "<absent>",
      createdAt |-> -1 ]

\* The window of a pair as the limiter's contract describes it: it opens with
\* the first call for the pair, or with the first call made one interval or
\* more after it opened, and n counts the calls made in it.
\* callers collects the client addresses the calls of the window came from.
WindowAfterCall(w, pair, client, t) ==
    IF Has(w, pair) /\ t < Get(w, pair).start + ConfigOf(pair[2]).interval
    THEN [Get(w, pair) EXCEPT !.n = @ + 1, !.callers = @ \cup {client}]
    ELSE [start |-> t, n |-> 1, callers |-> {client}]

AdmitsOf(a, pair) == IF Has(a, pair) THEN Get(a, pair) ELSE <<>>

\* The admission times that lie within one interval before time t.
RECURSIVE Recent(_, _, _)
Recent(times, t, interval) ==
    IF times = <<>> THEN <<>>
    ELSE IF Head(times) < t - interval THEN Recent(Tail(times), t, interval)
    ELSE times

\* A checkRateLimit call made for pair on behalf of client, returning res, as
\* the history sees it.
Observe(pair, client, res) ==
    /\ lastCall' = [identifier |-> pair[1], endpoint |-> pair[2], result |-> res]
    /\ win' = MapSet(win, pair, WindowAfterCall(win, pair, client, now))
    /\ admits' = IF res.success
                 THEN MapSet(admits, pair, Append(AdmitsOf(admits, pair), now))
                 ELSE admits
    /\ rejection' = IF res.success
                    THEN {p \in rejection : p[1] # pair}
                    ELSE MapSet(rejection, pair,
                                [at |-> now,
                                 response |-> createRateLimitResponse(res.limit, res.remaining,
                                                                      res.reset, now)])

\* The model stops calling for a key whose count is MaxOver past its limit.
BelowCap(identifier, endpoint) ==
    LET key == RateLimitKey(identifier, endpoint)
    IN  IF WindowExpired(requestLog, key, now) THEN TRUE
        ELSE Get(requestLog, key).count < ConfigOf(endpoint).maxRequests + MaxOver

-----------------------------------------------------------------------------
(* The clock and the sweep, common to both specifications.                 *)

Tick ==
    /\ now < MaxNow
    /\ now' = now + 1
    /\ admits' = {<<p[1], Recent(p[2], now + 1, ConfigOf(p[1][2]).interval)>> : p \in admits}
    /\ lastCall' = NoCall /\ last' = NoResponse
    /\ UNCHANGED <<requestLog, docs, reqs, win, nCalls, created, rejection>>
    /\ UNCHANGED browser

\* setInterval(..., 10 * 60 * 1000): the timer is left free to fire at any time.
Sweep ==
    /\ requestLog' = Swept(requestLog, now)
    /\ lastCall' = NoCall /\ last' = NoResponse
    /\ UNCHANGED <<now, docs, reqs, win, admits, nCalls, created, rejection>>
    /\ UNCHANGED browser

-----------------------------------------------------------------------------
(* SpecRL: the limiter called directly.                                    *)

\* An address (with the colons of IPv6) and a document id.
RLIdentifiers == {"::1", "d1"}

RLCall(identifier, endpoint) ==
    /\ nCalls < MaxCalls
    /\ BelowCap(identifier, endpoint)
    /\ LET r == checkRateLimit(requestLog, identifier, endpoint, ConfigOf(endpoint), now)
       IN  /\ requestLog' = r.log
           /\ Observe(<<identifier, endpoint>>, identifier, r.result)
    /\ nCalls' = nCalls + 1
    /\ UNCHANGED <<now, docs, reqs, last, created>>
    /\ UNCHANGED browser

InitRL ==
    /\ now = 0
    /\ requestLog = EmptyMap
    /\ lastCall = NoCall
    /\ win = EmptyMap
    /\ admits = EmptyMap
    /\ nCalls = 0
    /\ docs = {}
    /\ reqs = <<>>
    /\ last = NoResponse
    /\ created = EmptyMap
    /\ rejection = EmptyMap
    /\ editor = NoEditor
    /\ cr = NoRun
    /\ localStorage = <<>>

NextRL ==
    \/ \E i \in RLIdentifiers, e \in Endpoints : RLCall(i, e)
    \/ Tick
    \/ Sweep

SpecRL == InitRL /\ [][NextRL]_vars

-----------------------------------------------------------------------------
(* Claims on the rate limiter, checked under SpecRL.                       *)

LastPair == <<lastCall.identifier, lastCall.endpoint>>
NoEntry == [count |-> 0, resetTime |-> -1]
EntryOf(log, pair) ==
    LET key == RateLimitKey(pair[1], pair[2])
    IN  IF Has(log, key) THEN Get(log, key) ELSE NoEntry
RLPairs == RLIdentifiers \X Endpoints

\* C5: in a window of a key with maxRequests = N, opened by the first call
\* for the key or by the first call at or after the previous resetTime, the
\* 1st to N-th calls return success = TRUE and the later ones FALSE; the reset
\* returned is the end of that window, and the count of a new window restarts
\* from 0 (it is 1 after the call that opens it, which is admitted).
C5_WindowAdmission ==
    lastCall # NoCall =>
        LET w == Get(win, LastPair)
            c == ConfigOf(lastCall.endpoint)
        IN  /\ lastCall.result.success <=> (w.n <= c.maxRequests)
            /\ lastCall.result.reset = w.start + c.interval
            /\ (w.n = 1 /\ c.maxRequests >= 1) => lastCall.result.success
            /\ Has(requestLog, RateLimitKey(lastCall.identifier, lastCall.endpoint))
                 => EntryOf(requestLog, LastPair).count = w.n

\* C5 witness: one key only was called, N + 1 times in its first window (the
\* last call rejected), and the call made at resetTime is admitted with count 1.
C5_Witness ==
    /\ lastCall # NoCall
    /\ Cardinality(win) = 1
    /\ nCalls = ConfigOf(lastCall.endpoint).maxRequests + 2
    /\ now = INTERVAL
    /\ Get(win, LastPair).start = INTERVAL
    /\ Get(win, LastPair).n = 1
    /\ lastCall.result.success
    /\ EntryOf(requestLog, LastPair).count = 1

\* C6: every call adds exactly one to the count of its key's current window,
\* admitted or not, and returns success exactly when the count after the
\* increment is <= maxRequests; so the admissions of one window never exceed
\* maxRequests.
C6_CountsEveryCall ==
    /\ [][nCalls' = nCalls + 1 =>
            LET pair == <<lastCall'.identifier, lastCall'.endpoint>>
                key == RateLimitKey(pair[1], pair[2])
                c == ConfigOf(pair[2])
                before == IF ~Has(requestLog, key) \/ Get(requestLog, key).resetTime <= now
                          THEN 0 ELSE Get(requestLog, key).count
            IN  /\ Has(requestLog', key)
                /\ Get(requestLog', key).count = before + 1
                /\ lastCall'.result.success <=> (Get(requestLog', key).count <= c.maxRequests)
         ]_vars
    /\ [](\A p \in admits :
            LET w == Get(win, p[1])
                inWindow == {i \in 1..Len(p[2]) : p[2][i] >= w.start}
            IN  Cardinality(inWindow) <= ConfigOf(p[1][2]).maxRequests)

\* C6 witness: a second rejected call of a window has still been counted.
C6_Witness ==
    /\ lastCall # NoCall
    /\ ~lastCall.result.success
    /\ EntryOf(requestLog, LastPair).count = ConfigOf(lastCall.endpoint).maxRequests + 2
    /\ Len(AdmitsOf(admits, LastPair)) = ConfigOf(lastCall.endpoint).maxRequests

\* C30: a sweep deletes only entries whose resetTime is before now, and no
\* call at that time or later returns anything else for it; so what every
\* call returns (success, remaining, reset) is given by the calls made and
\* their times alone, as the windows of the history give them, whatever
\* sweeps ran between the calls.
C30_SweepUnobservable ==
    /\ [][nCalls' = nCalls =>
            /\ requestLog' \subseteq requestLog
            /\ \A p \in requestLog \ requestLog' : p[2].resetTime < now
            /\ \A pair \in RLPairs, t \in now..MaxNow :
                  checkRateLimit(requestLog', pair[1], pair[2], ConfigOf(pair[2]), t).result
                      = checkRateLimit(requestLog, pair[1], pair[2], ConfigOf(pair[2]), t).result
         ]_vars
    /\ [](lastCall # NoCall =>
            LET w == Get(win, LastPair)
                c == ConfigOf(lastCall.endpoint)
            IN  lastCall.result =
                    [ success |-> w.n <= c.maxRequests,
                      limit |-> c.maxRequests,
                      remaining |-> Max(0, c.maxRequests - w.n),
                      reset |-> w.start + c.interval ])

\* C30 witness: a call was answered after a sweep deleted the entry of
\* another key, which had been called.
C30_Witness ==
    /\ lastCall # NoCall
    /\ \E pair \in RLPairs :
          /\ pair # LastPair /\ Has(win, pair)
          /\ ~Has(requestLog, RateLimitKey(pair[1], pair[2]))

\* C33: a call for a key whose entry has resetTime > now leaves that
\* resetTime as it is and returns it, admitted or not; a call for a key with
\* no entry or with resetTime <= now (so also at now = resetTime) opens a
\* window that ends at now + interval, with the call as its first; hence the
\* reset every call returns is the time of the first call of its window plus
\* the interval.
C33_ResetFixed ==
    /\ [][nCalls' = nCalls + 1 =>
            LET pair == <<lastCall'.identifier, lastCall'.endpoint>>
                old == EntryOf(requestLog, pair)
                new == EntryOf(requestLog', pair)
            IN  /\ lastCall'.result.reset = new.resetTime
                /\ IF old # NoEntry /\ old.resetTime > now
                   THEN new.resetTime = old.resetTime /\ new.count = old.count + 1
                   ELSE new.resetTime = now + ConfigOf(pair[2]).interval /\ new.count = 1
         ]_vars
    /\ [](lastCall # NoCall =>
            /\ lastCall.result.reset
                  = Get(win, LastPair).start + ConfigOf(lastCall.endpoint).interval
            /\ lastCall.result.reset > now)

\* C33 witness: the one key called so far is called at the very time its
\* window, opened at 0, ends: the call opens a window that ends an interval
\* later.
C33_Witness ==
    /\ lastCall # NoCall /\ Cardinality(win) = 1 /\ nCalls >= 2
    /\ now = INTERVAL
    /\ Get(win, LastPair) = [start |-> INTERVAL, n |-> 1, callers |-> {lastCall.identifier}]
    /\ lastCall.result.reset = 2 * INTERVAL
    /\ EntryOf(requestLog, LastPair) = [count |-> 1, resetTime |-> 2 * INTERVAL]

\* C39: the remaining value a call returns is never negative: it is
\* maxRequests - count clamped at 0, with the count the call left in the
\* table; on the k-th call of a window that is admitted it is
\* maxRequests - k, which is 0 on the last one admitted, and on a rejected
\* call it is 0.
C39_RemainingClamped ==
    lastCall # NoCall =>
        LET k == Get(win, LastPair).n
            count == EntryOf(requestLog, LastPair).count
            maxRequests == ConfigOf(lastCall.endpoint).maxRequests
            remaining == lastCall.result.remaining
        IN  /\ remaining >= 0
            /\ count = k
            /\ remaining = (IF maxRequests - count > 0 THEN maxRequests - count ELSE 0)
            /\ lastCall.result.success => (k <= maxRequests /\ remaining = maxRequests - k)
            /\ (lastCall.result.success /\ k = maxRequests) => remaining = 0
            /\ ~lastCall.result.success => (k > maxRequests /\ remaining = 0)

\* C39 witness: the second call past the limit of a window is rejected with
\* nothing remaining, where the difference is -2.
C39_Witness ==
    /\ lastCall # NoCall /\ ~lastCall.result.success
    /\ lastCall.result.remaining = 0
    /\ ConfigOf(lastCall.endpoint).maxRequests - EntryOf(requestLog, LastPair).count = 0 - 2
    /\ Get(win, LastPair).n = ConfigOf(lastCall.endpoint).maxRequests + 2

C9_PairsIndependent ==
    /\ [][nCalls' = nCalls + 1 =>
            \A q \in RLPairs \ {<<lastCall'.identifier, lastCall'.endpoint>>} :
                EntryOf(requestLog', q) = EntryOf(requestLog, q)
         ]_vars
    /\ [](\A p, q \in RLPairs : p # q => RateLimitKey(p[1], p[2]) # RateLimitKey(q[1], q[2]))
    /\ [](\A q \in RLPairs :
            Has(requestLog, RateLimitKey(q[1], q[2])) =>
                /\ Has(win, q)
                /\ EntryOf(requestLog, q).count = Get(win, q).n
                /\ EntryOf(requestLog, q).resetTime = Get(win, q).start + ConfigOf(q[2]).interval)

\* C9 witness: three pairs, two sharing the identifier and two sharing the
\* endpoint, each hold the count of their own calls.
C9_Witness ==
    \E i1, i2 \in RLIdentifiers, e1, e2 \in Endpoints :
        /\ i1 # i2 /\ e1 # e2
        /\ EntryOf(requestLog, <<i1, e1>>).count = 2
        /\ EntryOf(requestLog, <<i1, e2>>).count = 1
        /\ EntryOf(requestLog, <<i2, e1>>).count = 1
        /\ EntryOf(requestLog, <<i1, e1>>).resetTime # EntryOf(requestLog, <<i1, e2>>).resetTime
        /\ nCalls = 4

\* The times a 429 response gives for the end of the rejection: the reset of
\* its body, its X-RateLimit-Reset header, and its Retry-After header counted
\* from the time of the response.
ResetTimesOf(r) ==
    { r.response.body.reset,
      r.response.headers.XRateLimitReset,
      r.at + r.response.headers.RetryAfter * SECOND }

\* C11: after a call for a key was rejected, the first call for the key made
\* at or after a reset time given with the rejection is admitted (for
\* maxRequests >= 1).
C11_RetryAfterReset ==
    [][ nCalls' = nCalls + 1 =>
          LET pair == <<lastCall'.identifier, lastCall'.endpoint>>
          IN  ( /\ Has(rejection, pair)
                /\ ConfigOf(pair[2]).maxRequests >= 1
                /\ \E t \in ResetTimesOf(Get(rejection, pair)) : now >= t )
              => lastCall'.result.success
      ]_vars


-----------------------------------------------------------------------------
(* The route handlers: requests, bodies and the documents table.           *)

\* At most MaxInFlight handler invocations run at once.
MaxInFlight == 2
\* Spec handles at most MaxDocRequests requests, with the clock up to MaxDocNow.
MaxDocRequests == 3
MaxDocNow == 1
\* SpecQuota handles at most MaxQuotaRequests requests.
MaxQuotaRequests == 3
Slots == 1..MaxInFlight

\* An optional string field that is not there (undefined in a body, NULL in a row).
Absent == "<absent>"

\* A JSON value found under encryptedContent: a string (its text and its
\* .length), a number, or nothing.
Str(text, length) == [kind |-> "string", text |-> text, length |-> length]
Undefined == [kind |-> "undefined", text |-> "", length |-> 0]
ANumber == [kind |-> "number", text |-> "7", length |-> 0]
\* No value at all: the body was not JSON.
NoJson == [kind |-> "none", text |-> "", length |-> 0]

\* encryptedContent.length > 1024 * 1024 * 10
MaxContentLength == 1024 * 1024 * 10

Contents ==
    { Undefined, ANumber, Str("", 0),
      Str("B1", 40), Str("B2", MaxContentLength), Str("B3", MaxContentLength + 1) }

\* hashWriteToken: base64url(SHA-256(token)).  The digest is kept as an
\* injective function of the token (no collisions), not computed.
hashWriteToken(token) == "sha256:" \o token

\* verifyWriteToken(token, hash): computedHash === hash
verifyWriteToken(token, hash) == hashWriteToken(token) = hash

Tokens == {"t1", "t2"}

\* What await request.json() gives: a parsed body, or a throw on a body that
\* is not JSON.
Malformed ==
    [parsed |-> FALSE, encryptedContent |-> NoJson, writeToken |-> Absent, writeTokenHash |-> Absent]
PostBodies ==
    [parsed : {TRUE}, encryptedContent : Contents, writeToken : {Absent},
     writeTokenHash : {Absent, hashWriteToken("t1")}] \cup {Malformed}
PutBodies ==
    [parsed : {TRUE}, encryptedContent : Contents, writeToken : {Absent} \cup Tokens,
     writeTokenHash : {Absent}] \cup {Malformed}

\* A header value as its lexemes: address atoms, "," and " ".
NoHeader == [present |-> FALSE, value |-> <<>>]
Header(lexemes) == [present |-> TRUE, value |-> lexemes]

HeaderSets ==
    { [xff |-> NoHeader, xri |-> NoHeader],
      [xff |-> Header(<<>>), xri |-> NoHeader],
      [xff |-> Header(<<>>), xri |-> Header(<<"198.51.100.9", " ">>)],
      [xff |-> Header(<<" ", "198.51.100.9", " ", ",", " ", "203.0.113.7">>),
       xri |-> Header(<<"203.0.113.7">>)],
      [xff |-> NoHeader, xri |-> Header(<<" ", "203.0.113.7", " ">>)] }

\* if (header): a header that is present and not the empty string
Truthy(h) == h.present /\ h.value # <<>>

\* split(",")[0]
RECURSIVE FirstField(_)
FirstField(lexemes) ==
    IF lexemes = <<>> \/ Head(lexemes) = "," THEN <<>>
    ELSE <<Head(lexemes)>> \o FirstField(Tail(lexemes))

\* trim()
RECURSIVE TrimLeft(_)
TrimLeft(lexemes) ==
    IF lexemes # <<>> /\ Head(lexemes) = " " THEN TrimLeft(Tail(lexemes)) ELSE lexemes
RECURSIVE TrimRight(_)
TrimRight(lexemes) ==
    IF lexemes # <<>> /\ lexemes[Len(lexemes)] = " "
    THEN TrimRight(SubSeq(lexemes, 1, Len(lexemes) - 1)) ELSE lexemes
Trim(lexemes) == TrimRight(TrimLeft(lexemes))

RECURSIVE Join(_)
Join(lexemes) == IF lexemes = <<>> THEN "" ELSE Head(lexemes) \o Join(Tail(lexemes))

\* getClientIp(request)
\* (variant: the first entry as it stands between the commas)
getClientIpUntrimmed(headers) ==
    IF Truthy(headers.xff) THEN Join(FirstField(headers.xff.value))
    ELSE IF Truthy(headers.xri) THEN Join(Trim(headers.xri.value))
    ELSE "unknown"
getClientIp(headers) ==
    IF Truthy(headers.xff) THEN Join(Trim(FirstField(headers.xff.value)))
    ELSE IF Truthy(headers.xri) THEN Join(Trim(headers.xri.value))
    ELSE "unknown"

\* generateId(): 16 random bytes in hex; the model draws from Ids.
Ids == {"d1", "d2"}

\* The identifier each handler passes to checkRateLimit.
PostIdentifier(headers) == getClientIp(headers)
GetIdentifier(id, headers) == getClientIp(headers)
\* (variant: updates counted per client address)
PutIdentifierByClient(id, headers) == getClientIp(headers)
PutIdentifier(id, headers) == id

\* !encryptedContent || typeof encryptedContent !== "string"
\* (variant: the empty string let through)
InvalidContentTypeOnly(v) == v.kind # "string"
InvalidContent(v) == v.kind # "string" \/ v.length = 0

\* encryptedContent.length > 1024 * 1024 * 10
\* (variant: content of exactly the maximum length refused)
TooLargeInclusive(v) == v.length >= MaxContentLength
TooLarge(v) == v.length > MaxContentLength

\* db.insert(documents).values({ id, encryptedContent, createdAt: new Date() })
NewRow(id, content, t) ==
    [id |-> id, encryptedContent |-> content, writeTokenHash |-> Absent, createdAt |-> t]

\* id: text("id").primaryKey(): an insert of a stored id is refused
\* (variant: a table without the primary key)
NoPrimaryKey(rows, id) == FALSE
PrimaryKeyConflict(rows, id) == \E row \in rows : row.id = id

\* db.select().from(documents).where(eq(documents.id, id)).limit(1)
\* (variant: a select without its where clause)
SelectAll(rows, id) == rows
\* (variant: a where clause that matches no row)
SelectNothing(rows, id) == {}
Select(rows, id) == {row \in rows : row.id = id}

\* db.update(documents).set({ encryptedContent }).where(eq(documents.id, id))
\* (variant: an update that writes nothing)
UpdateNoRow(rows, id, content) == rows
\* (variant: an update that also stamps createdAt)
UpdateTouchingCreatedAt(rows, id, content) ==
    {IF row.id = id THEN [row EXCEPT !.encryptedContent = content, !.createdAt = now] ELSE row : row \in rows}
\* (variant: only the first update of a document is written)
UpdateFirstOnly(rows, id, content) ==
    {IF row.id = id /\ row.encryptedContent = Get(created, id).row.encryptedContent
     THEN [row EXCEPT !.encryptedContent = content] ELSE row : row \in rows}
UpdateRows(rows, id, content) ==
    {IF row.id = id THEN [row EXCEPT !.encryptedContent = content] ELSE row : row \in rows}

Idle ==
    [pc |-> "idle", method |-> "", id |-> "", content |-> Undefined,
     token |-> Absent, hash |-> Absent, at |-> 0]

\* A response: the request it answers and NextResponse's status and body
\* (createdAt is -1 in a body that has none).
Response(req, status, content) ==
    [method |-> req.method, id |-> req.id, status |-> status,
     content |-> content, token |-> req.token, createdAt |-> -1]

Respond(s, status, content) ==
    /\ last' = Response(reqs[s], status, content)
    /\ reqs' = [reqs EXCEPT ![s] = Idle]

\* The handler's synchronous run up to its first response or await: the call
\* of checkRateLimit, then createRateLimitResponse or await request.json().
\* An invocation takes the lowest free slot.
Start(s, method, id, identifier, endpoint, nextPc) ==
    /\ reqs[s].pc = "idle"
    /\ \A s2 \in Slots : s2 < s => reqs[s2].pc # "idle"
    /\ nCalls < MaxCalls
    /\ BelowCap(identifier, endpoint)
    /\ LET r == checkRateLimit(requestLog, identifier, endpoint, ConfigOf(endpoint), now)
           req == [Idle EXCEPT !.method = method, !.id = id]
       IN  /\ requestLog' = r.log
           /\ nCalls' = nCalls + 1
           /\ IF r.result.success
              THEN /\ reqs' = [reqs EXCEPT ![s] = [req EXCEPT !.pc = nextPc]]
                   /\ last' = NoResponse
              ELSE /\ last' = Response(req, 429, Undefined)
                   /\ UNCHANGED reqs
    /\ UNCHANGED <<now, docs, created>>

\* What the handler's checkRateLimit call returns.
Verdict(identifier, endpoint) ==
    checkRateLimit(requestLog, identifier, endpoint, ConfigOf(endpoint), now).result

\* POST /api/documents, route.ts:18-34
PostStart(s, headers) ==
    Start(s, "POST", "", PostIdentifier(headers), "create_document", "json")

\* route.ts:36-62: the body, its validation, generateId and the row to insert
PostJson(s, body, id) ==
    /\ reqs[s].pc = "json" /\ reqs[s].method = "POST"
    /\ LET req == [reqs[s] EXCEPT !.hash = body.writeTokenHash]
       IN  IF ~body.parsed
           THEN /\ last' = Response(req, 500, NoJson)
                /\ reqs' = [reqs EXCEPT ![s] = Idle]
           ELSE IF InvalidContent(body.encryptedContent)
           THEN /\ last' = Response(req, 400, body.encryptedContent)
                /\ reqs' = [reqs EXCEPT ![s] = Idle]
           ELSE IF TooLarge(body.encryptedContent)
           THEN /\ last' = Response(req, 413, body.encryptedContent)
                /\ reqs' = [reqs EXCEPT ![s] = Idle]
           ELSE /\ reqs' = [reqs EXCEPT ![s] =
                        [req EXCEPT !.pc = "insert", !.id = id,
                                    !.content = body.encryptedContent, !.at = now]]
                /\ last' = NoResponse
    /\ UNCHANGED <<now, requestLog, docs, nCalls, created>>

\* route.ts:58-77: the insert, which the primary key refuses for a stored id
\* (variant: an insert that on a conflict replaces the stored row)
PostInsertUpsert(s) ==
    /\ reqs[s].pc = "insert"
    /\ docs' = {row \in docs : row.id # reqs[s].id}
                   \cup {NewRow(reqs[s].id, reqs[s].content, reqs[s].at)}
    /\ created' = MapSet(created, reqs[s].id,
                         [hash |-> reqs[s].hash,
                          row |-> NewRow(reqs[s].id, reqs[s].content, reqs[s].at),
                          writes |-> <<reqs[s].content>>,
                          raced |-> FALSE])
    /\ Respond(s, 201, reqs[s].content)
    /\ UNCHANGED <<now, requestLog, nCalls>>
PostInsert(s) ==
    /\ reqs[s].pc = "insert"
    /\ IF PrimaryKeyConflict(docs, reqs[s].id)
       THEN /\ Respond(s, 500, reqs[s].content)
            /\ UNCHANGED <<docs, created>>
       ELSE /\ docs' = docs \cup {NewRow(reqs[s].id, reqs[s].content, reqs[s].at)}
            /\ created' = MapSet(created, reqs[s].id,
                                 [hash |-> reqs[s].hash,
                                  row |-> NewRow(reqs[s].id, reqs[s].content, reqs[s].at),
                                  writes |-> <<reqs[s].content>>,
                                  raced |-> FALSE])
            /\ Respond(s, 201, reqs[s].content)
    /\ UNCHANGED <<now, requestLog, nCalls>>

\* GET /api/documents/[id], part_003:17-45
GetStart(s, id, headers) ==
    Start(s, "GET", id, GetIdentifier(id, headers), "get_document", "select")

\* part_003:47-74
GetSelect(s) ==
    /\ reqs[s].pc = "select" /\ reqs[s].method = "GET"
    /\ LET result == Select(docs, reqs[s].id)
       IN  IF result = {}
           THEN Respond(s, 404, Undefined)
           ELSE LET document == CHOOSE row \in result : TRUE
                IN  /\ last' = [Response(reqs[s], 200, document.encryptedContent)
                                   EXCEPT !.createdAt = document.createdAt]
                    /\ reqs' = [reqs EXCEPT ![s] = Idle]
    /\ UNCHANGED <<now, requestLog, docs, nCalls, created>>

\* PUT /api/documents/[id], part_003:89-116
\* (variant: the body read without a call of the limiter before it)
PutStartUnlimited(s, id, headers) ==
    /\ reqs[s].pc = "idle"
    /\ \A s2 \in Slots : s2 < s => reqs[s2].pc # "idle"
    /\ reqs' = [reqs EXCEPT ![s] = [Idle EXCEPT !.method = "PUT", !.id = id, !.pc = "json"]]
    /\ last' = NoResponse
    /\ UNCHANGED <<now, requestLog, nCalls, docs, created>>
PutStart(s, id, headers) ==
    Start(s, "PUT", id, PutIdentifier(id, headers), "update_document", "json")

\* part_003:118-141: the body and its validation
PutJson(s, body) ==
    /\ reqs[s].pc = "json" /\ reqs[s].method = "PUT"
    /\ LET req == [reqs[s] EXCEPT !.token = body.writeToken]
       IN  IF ~body.parsed
           THEN /\ last' = Response(req, 500, NoJson)
                /\ reqs' = [reqs EXCEPT ![s] = Idle]
           ELSE IF InvalidContent(body.encryptedContent)
           THEN /\ last' = Response(req, 400, body.encryptedContent)
                /\ reqs' = [reqs EXCEPT ![s] = Idle]
           ELSE IF TooLarge(body.encryptedContent)
           THEN /\ last' = Response(req, 413, body.encryptedContent)
                /\ reqs' = [reqs EXCEPT ![s] = Idle]
           ELSE /\ reqs' = [reqs EXCEPT ![s] =
                        [req EXCEPT !.pc = "select", !.content = body.encryptedContent]]
                /\ last' = NoResponse
    /\ UNCHANGED <<now, requestLog, docs, nCalls, created>>

\* part_003:136-148: the existence check
PutSelect(s) ==
    /\ reqs[s].pc = "select" /\ reqs[s].method = "PUT"
    /\ IF Select(docs, reqs[s].id) = {}
       THEN Respond(s, 404, reqs[s].content)
       ELSE /\ reqs' = [reqs EXCEPT ![s].pc = "update"]
            /\ last' = NoResponse
    /\ UNCHANGED <<now, requestLog, docs, nCalls, created>>

\* part_003:150-162: the update
PutUpdate(s) ==
    /\ reqs[s].pc = "update"
    /\ docs' = UpdateRows(docs, reqs[s].id, reqs[s].content)
    /\ Respond(s, 200, reqs[s].content)
    /\ created' = IF Has(created, reqs[s].id)
                  THEN MapSet(created, reqs[s].id,
                              [Get(created, reqs[s].id) EXCEPT
                                  !.writes = Append(@, reqs[s].content),
                                  !.raced = @ \/ \E s2 \in Slots \ {s} :
                                                    /\ reqs[s2].pc = "update"
                                                    /\ reqs[s2].id = reqs[s].id])
                  ELSE created
    /\ UNCHANGED <<now, requestLog, nCalls>>

Init ==
    /\ now = 0
    /\ requestLog = EmptyMap
    /\ lastCall = NoCall
    /\ win = EmptyMap
    /\ admits = EmptyMap
    /\ nCalls = 0
    /\ docs = {}
    /\ reqs = [s \in Slots |-> Idle]
    /\ last = NoResponse
    /\ created = EmptyMap
    /\ rejection = EmptyMap
    /\ editor = NoEditor
    /\ cr = NoRun
    /\ localStorage = <<>>

\* Spec: the handlers on the documents table.  The history of the limiter
\* is not kept, and the requests come from one client.
QuietLimiter == lastCall' = NoCall /\ UNCHANGED <<win, admits, rejection>>
Quiet == QuietLimiter /\ UNCHANGED browser

DocHeaderSets ==
    { [xff |-> Header(<<"203.0.113.7">>), xri |-> NoHeader] }
\* Creates come from two clients.
DocPostHeaderSets ==
    DocHeaderSets \cup { [xff |-> NoHeader, xri |-> Header(<<"198.51.100.9">>)] }

Next ==
    \/ \E s \in Slots, h \in DocPostHeaderSets :
           nCalls < MaxDocRequests /\ PostStart(s, h) /\ Quiet
    \/ \E s \in Slots, b \in PostBodies, id \in Ids : PostJson(s, b, id) /\ Quiet
    \/ \E s \in Slots : PostInsert(s) /\ Quiet
    \/ \E s \in Slots, id \in Ids, h \in DocHeaderSets :
           nCalls < MaxDocRequests /\ GetStart(s, id, h) /\ Quiet
    \/ \E s \in Slots : GetSelect(s) /\ Quiet
    \/ \E s \in Slots, id \in Ids, h \in DocHeaderSets :
           nCalls < MaxDocRequests /\ PutStart(s, id, h) /\ Quiet
    \/ \E s \in Slots, b \in PutBodies : PutJson(s, b) /\ Quiet
    \/ \E s \in Slots : PutSelect(s) /\ Quiet
    \/ \E s \in Slots : PutUpdate(s) /\ Quiet
    \/ now < MaxDocNow /\ Tick
    \/ Sweep

Spec == Init /\ [][Next]_vars

-----------------------------------------------------------------------------
(* SpecQuota: the handlers seen from the limiter.  The history of the      *)
(* limiter is kept and the requests come from every header set.  No create *)
(* passes validation here, so the table stays empty: a read or an update   *)
(* that passes the limiter ends in 400 or 404.                             *)

QuotaPostBodies ==
    [parsed : {TRUE}, encryptedContent : {Undefined}, writeToken : {Absent},
     writeTokenHash : {Absent}]
QuotaPutBodies ==
    [parsed : {TRUE}, encryptedContent : {Undefined, Str("B1", 40)}, writeToken : {"t1"},
     writeTokenHash : {Absent}]

\* Two clients, the second behind a proxy chain that names the first.
QuotaHeaderSets ==
    { [xff |-> Header(<<"203.0.113.7">>), xri |-> NoHeader],
      [xff |-> Header(<<" ", "198.51.100.9", ",", " ", "203.0.113.7">>), xri |-> Header(<<"203.0.113.7">>)] }

NextQuota ==
    \/ \E s \in Slots, h \in QuotaHeaderSets :
           /\ nCalls < MaxQuotaRequests
           /\ PostStart(s, h)
           /\ Observe(<<getClientIp(h), "create_document">>, getClientIp(h),
                      Verdict(PostIdentifier(h), "create_document"))
           /\ UNCHANGED browser
    \/ \E s \in Slots, b \in QuotaPostBodies, id \in Ids : PostJson(s, b, id) /\ Quiet
    \/ \E s \in Slots, id \in Ids, h \in QuotaHeaderSets :
           /\ nCalls < MaxQuotaRequests
           /\ GetStart(s, id, h)
           /\ Observe(<<getClientIp(h), "get_document">>, getClientIp(h),
                      Verdict(GetIdentifier(id, h), "get_document"))
           /\ UNCHANGED browser
    \/ \E s \in Slots : GetSelect(s) /\ Quiet
    \/ \E s \in Slots, id \in Ids, h \in QuotaHeaderSets :
           /\ nCalls < MaxQuotaRequests
           /\ PutStart(s, id, h)
           /\ Observe(<<id, "update_document">>, getClientIp(h),
                      Verdict(PutIdentifier(id, h), "update_document"))
           /\ UNCHANGED browser
    \/ \E s \in Slots, b \in QuotaPutBodies : PutJson(s, b) /\ Quiet
    \/ \E s \in Slots : PutSelect(s) /\ Quiet
    \/ now < INTERVAL /\ Tick
    \/ Sweep

SpecQuota == Init /\ [][NextQuota]_vars

-----------------------------------------------------------------------------
(* SpecIp: creates and reads under every header set of HeaderSets, with    *)
(* the requests made so far kept in cr.seen.  The clock stands still, so   *)
(* every request falls into the first window of its key.                   *)

SeenOf(c) == IF c.pc = "requests" THEN c.seen ELSE <<>>
Seen(endpoint, headers) ==
    /\ cr' = [pc |-> "requests", seen |-> Append(SeenOf(cr), <<endpoint, headers>>)]
    /\ UNCHANGED <<editor, localStorage>>

NextIp ==
    \/ \E s \in Slots, h \in HeaderSets :
           /\ nCalls < MaxQuotaRequests
           /\ PostStart(s, h)
           /\ Observe(<<getClientIp(h), "create_document">>, getClientIp(h),
                      Verdict(PostIdentifier(h), "create_document"))
           /\ Seen("create_document", h)
    \/ \E s \in Slots, b \in QuotaPostBodies, id \in Ids : PostJson(s, b, id) /\ Quiet
    \/ \E s \in Slots, id \in Ids, h \in HeaderSets :
           /\ nCalls < MaxQuotaRequests
           /\ GetStart(s, id, h)
           /\ Observe(<<getClientIp(h), "get_document">>, getClientIp(h),
                      Verdict(GetIdentifier(id, h), "get_document"))
           /\ Seen("get_document", h)
    \/ \E s \in Slots : GetSelect(s) /\ Quiet

SpecIp == Init /\ [][NextIp]_vars

-----------------------------------------------------------------------------
(* Claims on the documents, checked under Spec.                            *)

\* The content of the latest acknowledged write of a document.
LatestWrite(id) == Get(created, id).writes[Len(Get(created, id).writes)]

\* A non-empty string within the size limit.
ValidContent(v) == v.kind = "string" /\ v.length >= 1 /\ v.length <= MaxContentLength

\* C1: an update of a document created with a writeTokenHash h that gets past
\* the limiter and the validation is answered 401, and changes nothing, when
\* its writeToken is missing or does not hash to h, and is answered 200, its
\* content stored, when the token hashes to h.
C1_WriteAuthorization ==
    [][ ( /\ last'.method = "PUT"
          /\ last'.status \notin {429, 400, 413, 500}
          /\ Has(created, last'.id)
          /\ Get(created, last'.id).hash # Absent )
        => IF last'.token # Absent /\ verifyWriteToken(last'.token, Get(created, last'.id).hash)
           THEN /\ last'.status = 200
                /\ \A row \in Select(docs', last'.id) : row.encryptedContent = last'.content
           ELSE /\ last'.status = 401
                /\ docs' = docs
      ]_vars

\* C2: the row stored by a create carries the writeTokenHash of the create's
\* body, and none when the body had none.
C2_StoresWriteTokenHash ==
    \A row \in docs :
        Has(created, row.id) => row.writeTokenHash = Get(created, row.id).hash

\* C3: every stored document keeps the id, the createdAt and the
\* writeTokenHash of the row its create inserted; a document created without
\* a writeTokenHash has none; rows are never removed, and a row changes only
\* by a successful update of its id, and then only in encryptedContent.
C3_ImmutableFields ==
    /\ [](\A row \in docs :
            /\ Has(created, row.id)
            /\ Select(docs, row.id) = {row}
            /\ row.createdAt = Get(created, row.id).row.createdAt
            /\ row.writeTokenHash = Get(created, row.id).row.writeTokenHash
            /\ Get(created, row.id).hash = Absent => row.writeTokenHash = Absent)
    /\ [][\A row \in docs :
            \E row2 \in docs' :
                /\ row2.id = row.id
                /\ row2 # row =>
                      /\ last'.method = "PUT" /\ last'.status = 200 /\ last'.id = row.id
                      /\ row2 = [row EXCEPT !.encryptedContent = last'.content]
         ]_vars

\* C3 witness: a document created without a writeTokenHash has been updated
\* at a later time to another content.
C3_Witness ==
    /\ last.method = "PUT" /\ last.status = 200
    /\ \E row \in Select(docs, last.id) :
          /\ row.createdAt < now
          /\ Get(created, row.id).hash = Absent
          /\ row.encryptedContent # Get(created, row.id).row.encryptedContent
          /\ row.encryptedContent = last.content

\* C4: an update of a document whose stored writeTokenHash is absent, with
\* valid content and past the limiter, is answered 200 and its content is
\* stored, whatever writeToken it carries.
C4_TokenlessUpdate ==
    [][ ( /\ last'.method = "PUT"
          /\ last'.status # 429
          /\ ValidContent(last'.content)
          /\ \E row \in Select(docs, last'.id) : row.writeTokenHash = Absent )
        => /\ last'.status = 200
           /\ \A row \in Select(docs', last'.id) : row.encryptedContent = last'.content
      ]_vars

\* C4 witness: an update carrying a token has replaced the content of a
\* document created without a writeTokenHash.
C4_Witness ==
    /\ last.method = "PUT" /\ last.status = 200 /\ last.token = "t2"
    /\ \E row \in Select(docs, last.id) :
          /\ row.writeTokenHash = Absent
          /\ Get(created, row.id).hash = Absent
          /\ row.encryptedContent = last.content
          /\ row.encryptedContent # Get(created, row.id).row.encryptedContent

\* C14: a read that passes the limiter is answered 404 when no row has its
\* id, and otherwise 200 with the content of the latest acknowledged write of
\* the id (its create, or its most recent successful update) and the row's
\* createdAt; it carries no token and leaves the table as it was.
C14_GetReturnsLatest ==
    [][ (last'.method = "GET" /\ last'.status # 429) =>
          /\ docs' = docs
          /\ last'.token = Absent
          /\ IF \A row \in docs : row.id # last'.id
             THEN last'.status = 404
             ELSE /\ last'.status = 200
                  /\ Has(created, last'.id)
                  /\ last'.content = LatestWrite(last'.id)
                  /\ last'.createdAt = Get(created, last'.id).row.createdAt
      ]_vars

\* C14 witness: a read returns the content of an update, not of the create.
C14_Witness ==
    /\ last.method = "GET" /\ last.status = 200
    /\ last.content = LatestWrite(last.id)
    /\ last.content # Get(created, last.id).row.encryptedContent
    /\ last.createdAt = Get(created, last.id).row.createdAt


\* The configured maximum of the claims: 10 * 1024 * 1024 characters.
SizeLimit == 10 * 1024 * 1024
Stored(rows, id) == \E row \in rows : row.id = id
IsWrite(r) == r.method \in {"POST", "PUT"}

C17_UpdateNotFound ==
    [][ last'.method = "PUT" =>
          /\ ( /\ last'.status # 429
               /\ last'.content.kind = "string"
               /\ last'.content.length >= 1
               /\ last'.content.length <= SizeLimit
               /\ ~Stored(docs, last'.id) )
             => (last'.status = 404 /\ docs' = docs)
          /\ last'.status = 404 => (~Stored(docs, last'.id) /\ ~Stored(docs', last'.id))
      ]_vars

\* C17 witness: an update of an unknown id is answered 404 while another
\* document is stored.
C17_Witness ==
    /\ last.method = "PUT" /\ last.status = 404
    /\ docs # {}
    /\ ~Stored(docs, last.id)

\* C18: a create answered 201 returns an id that no row had, adds one row
\* with that id and its content and leaves every other row as it was; a
\* create whose generated id is already stored is answered with an error and
\* changes nothing; no two rows ever share an id.
C18_FreshId ==
    /\ [][ last'.method = "POST" =>
             /\ last'.status = 201 =>
                   /\ ~Stored(docs, last'.id)
                   /\ \E row \in docs' :
                         /\ row.id = last'.id /\ row.encryptedContent = last'.content
                         /\ docs' = docs \cup {row}
             /\ (last'.id # "" /\ Stored(docs, last'.id)) =>
                   (last'.status = 500 /\ docs' = docs)
         ]_vars
    /\ [](\A r1, r2 \in docs : r1.id = r2.id => r1 = r2)

\* C18 witness: a create that drew the id of a stored document with another
\* content is answered 500, and the stored document is as it was created.
C18_Witness ==
    /\ last.method = "POST" /\ last.status = 500
    /\ \E row \in docs :
          /\ row.id = last.id
          /\ row.encryptedContent # last.content
          /\ row = Get(created, row.id).row

\* C19: an update that found its document is acknowledged with 200 whatever
\* other updates are in flight, and after every acknowledged write the stored
\* content is the content of the write acknowledged last.
C19_LastWriteWins ==
    /\ [][ \A s \in Slots :
             (reqs[s].pc = "update" /\ reqs'[s].pc # "update") =>
                 /\ last' = Response(reqs[s], 200, reqs[s].content)
                 /\ \A row \in docs' : row.id = reqs[s].id => row.encryptedContent = reqs[s].content
         ]_vars
    /\ [](\A row \in docs : row.encryptedContent = LatestWrite(row.id))

\* C19 witness: two updates of one document with different contents, both
\* past the existence check before either wrote, have both been acknowledged,
\* and the document holds the content of the second to write.
C19_Witness ==
    /\ \A s \in Slots : reqs[s].pc = "idle"
    /\ last.method = "PUT" /\ last.status = 200
    /\ \E p \in created :
          /\ p[1] = last.id
          /\ p[2].raced
          /\ Len(p[2].writes) = 3
          /\ p[2].writes[2] # p[2].writes[3]
          /\ p[2].writes[3] = last.content
          /\ \E row \in docs : row.id = p[1] /\ row.encryptedContent = p[2].writes[3]


\* The statuses of C32's errors.
ErrorStatuses == {429, 400, 413, 404, 401, 500}

\* C32: a step of a create or an update that answers with an error status, or
\* does not answer yet, leaves the table as it is; the table changes only in
\* the step that answers a create with 201, by one row more, of an id not
\* stored before, and in the step that answers an update with 200, in the
\* content of the row of that id alone.
C32_ErrorsLeaveStore ==
    [][/\ (IsWrite(last') /\ last'.status \in ErrorStatuses) => docs' = docs
       /\ docs' # docs =>
             \/ /\ last'.method = "POST" /\ last'.status = 201
                /\ Select(docs, last'.id) = {}
                /\ \E row \in docs' :
                      /\ row.id = last'.id /\ row.encryptedContent = last'.content
                      /\ docs' = docs \cup {row}
             \/ /\ last'.method = "PUT" /\ last'.status = 200
                /\ \E row \in docs :
                      /\ row.id = last'.id
                      /\ docs' = (docs \ {row})
                                    \cup {[row EXCEPT !.encryptedContent = last'.content]}
       /\ (IsWrite(last') /\ last'.status \notin ErrorStatuses \cup {0}) =>
             last'.status = (IF last'.method = "POST" THEN 201 ELSE 200)
      ]_vars

\* C32 witness: a create whose id was already stored has been answered 500
\* and the stored row has kept its content, which is not the content sent.
C32_Witness ==
    /\ last.method = "POST" /\ last.status = 500 /\ last.content.kind = "string"
    /\ \E row \in Select(docs, last.id) : row.encryptedContent # last.content

\* The endpoint a handler names in its checkRateLimit call.
EndpointOf(method) ==
    CASE method = "POST" -> "create_document"
      [] method = "GET" -> "get_document"
      [] method = "PUT" -> "update_document"

\* The identifiers a request can be counted under: the document id for an
\* update, the address of one of the clients for a create or a read.
IdentifiersOf(method, id) ==
    IF method = "PUT" THEN {id} ELSE {getClientIp(h) : h \in DocPostHeaderSets}

\* This step took one unit of the quota of (identifier, endpoint): the count
\* of the key is one more than in its running window, or 1 in a new window,
\* and no other key changed.
Consumed(identifier, endpoint) ==
    LET key == RateLimitKey(identifier, endpoint)
        before == IF ~Has(requestLog, key) \/ Get(requestLog, key).resetTime <= now
                  THEN 0 ELSE Get(requestLog, key).count
    IN  /\ Has(requestLog', key)
        /\ Get(requestLog', key).count = before + 1
        /\ \A p \in requestLog : p[1] # key => p \in requestLog'

\* C31: a request gets past the handler's first step only in the step that
\* counts it against its quota; that step reads no body and no row, and
\* answers 429 exactly when the count is past the limit, leaving the request
\* nowhere; so every later answer (400, 413, 404, 500, 200, 201) is given to
\* a request that was counted, by a step that counts nothing.
C31_LimitFirst ==
    [][/\ \A s \in Slots :
             (reqs[s].pc = "idle" /\ reqs'[s].pc # "idle") =>
                 /\ nCalls' = nCalls + 1
                 /\ reqs'[s].pc = (IF reqs'[s].method = "GET" THEN "select" ELSE "json")
                 /\ reqs'[s].content = Undefined
                 /\ \E i \in IdentifiersOf(reqs'[s].method, reqs'[s].id) :
                       /\ Consumed(i, EndpointOf(reqs'[s].method))
                       /\ Get(requestLog', RateLimitKey(i, EndpointOf(reqs'[s].method))).count
                             <= ConfigOf(EndpointOf(reqs'[s].method)).maxRequests
                 /\ last' = NoResponse /\ docs' = docs
       /\ last'.status = 429 =>
             /\ nCalls' = nCalls + 1 /\ reqs' = reqs /\ docs' = docs
             /\ \E i \in IdentifiersOf(last'.method, last'.id) :
                   /\ Consumed(i, EndpointOf(last'.method))
                   /\ Get(requestLog', RateLimitKey(i, EndpointOf(last'.method))).count
                         > ConfigOf(EndpointOf(last'.method)).maxRequests
       /\ last'.status \notin {0, 429} =>
             /\ nCalls' = nCalls /\ requestLog' = requestLog
             /\ \E s \in Slots :
                   /\ reqs[s].pc \in {"json", "select", "insert", "update"}
                   /\ reqs'[s].pc = "idle"
                   /\ reqs[s].method = last'.method
       /\ nCalls' = nCalls + 1 =>
             \/ last'.status = 429
             \/ \E s \in Slots : reqs[s].pc = "idle" /\ reqs'[s].pc # "idle"
      ]_vars

\* C31 witness: an update of a document that is not stored was answered 404
\* and the quota of its id stands at the limit: the update after it, whatever
\* its body, is answered 429.
C31_Witness ==
    /\ last.method = "PUT" /\ last.status = 404
    /\ EntryOf(requestLog, <<last.id, "update_document">>).count = UPDATE_MAX
    /\ EntryOf(requestLog, <<last.id, "update_document">>).resetTime > now

-----------------------------------------------------------------------------
(* Claims on the quotas of the handlers, checked under SpecQuota.          *)

\* C8: the limiter's verdict on an update counts the updates of that document
\* id in the window, whatever client sent them, and its verdict on a create
\* or a read counts the requests of that client address; a request is
\* answered 429 exactly when that count is past the limit.
C8_UpdateQuotaPerDocument ==
    /\ lastCall # NoCall =>
          /\ lastCall.result.success <=>
                (Get(win, LastPair).n <= ConfigOf(lastCall.endpoint).maxRequests)
          /\ last.status = 429 <=> ~lastCall.result.success
    /\ last.status = 429 =>
          /\ lastCall # NoCall
          /\ last.method = "PUT" =>
                /\ LastPair = <<last.id, "update_document">>
                /\ Get(win, LastPair).n > UPDATE_MAX
          /\ last.method = "POST" =>
                /\ lastCall.endpoint = "create_document"
                /\ Get(win, LastPair).callers = {lastCall.identifier}
                /\ Get(win, LastPair).n > CREATE_MAX
          /\ last.method = "GET" =>
                /\ lastCall.endpoint = "get_document"
                /\ Get(win, LastPair).callers = {lastCall.identifier}
                /\ Get(win, LastPair).n > GET_MAX

\* C8 witness: the update past the limit of a document is answered 429 though
\* the updates of the window came from two client addresses.
C8_Witness ==
    /\ last.method = "PUT" /\ last.status = 429
    /\ Get(win, <<last.id, "update_document">>).n = UPDATE_MAX + 1
    /\ Cardinality(Get(win, <<last.id, "update_document">>).callers) = 2

\* C10: with handlers interleaved at their await points, the count of a key
\* is the number of checkRateLimit calls made for it in its window, and at
\* most maxRequests of them were admitted.
C10_NoLostIncrement ==
    \A p \in win :
        LET key == RateLimitKey(p[1][1], p[1][2])
            inWindow == {i \in 1..Len(AdmitsOf(admits, p[1])) :
                            AdmitsOf(admits, p[1])[i] >= p[2].start}
        IN  /\ Has(requestLog, key) => Get(requestLog, key).count = p[2].n
            /\ Cardinality(inWindow) <= ConfigOf(p[1][2]).maxRequests

\* C10 witness: two updates of one document are in flight at once, past the
\* limiter and before their bodies are read, and the count of the key is 2.
C10_Witness ==
    /\ \A s \in Slots : reqs[s].pc = "json" /\ reqs[s].method = "PUT" /\ reqs[s].id = reqs[1].id
    /\ EntryOf(requestLog, <<reqs[1].id, "update_document">>).count = 2
    /\ Len(AdmitsOf(admits, <<reqs[1].id, "update_document">>)) = 2

-----------------------------------------------------------------------------
(* The encryption utilities (lib/crypto): strings are sequences of UTF-16   *)
(* code units, buffers are sequences of bytes.                              *)

IV_LENGTH == 12
KEY_LENGTH == 256
\* The tag AES-GCM appends (tagLength is left at its default, 128 bits).
TagBytes == 16

\* Code units: two ASCII letters, U+FEFF, a high and a low surrogate (which
\* paired are U+1F600) and U+FFFD.
BOM == "U+FEFF"
HI == "U+D83D"
LO == "U+DE00"
FFFD == "U+FFFD"

\* The base64 alphabet of btoa and atob.
B64 ==
    << "A", "B", "C", "D", "E", "F", "G", "H", "I", "J", "K", "L", "M", "N", "O", "P",
       "Q", "R", "S", "T", "U", "V", "W", "X", "Y", "Z", "a", "b", "c", "d", "e", "f",
       "g", "h", "i", "j", "k", "l", "m", "n", "o", "p", "q", "r", "s", "t", "u", "v",
       "w", "x", "y", "z", "0", "1", "2", "3", "4", "5", "6", "7", "8", "9", "+", "/" >>
B64Table == [c \in {B64[i] : i \in 1..64} |-> (CHOOSE i \in 1..64 : B64[i] = c) - 1]
B64Index(c) == IF c \in DOMAIN B64Table THEN B64Table[c] ELSE -1

\* The code of an ASCII character: "#" or a character of base64, standard or
\* URL-safe.
AsciiCode(c) ==
    IF c = "#" THEN 35
    ELSE IF c \in {"+", "-"} THEN (IF c = "+" THEN 43 ELSE 45)
    ELSE IF c \in {"/", "_"} THEN (IF c = "/" THEN 47 ELSE 95)
    ELSE LET i == B64Index(c)
         IN  IF i < 26 THEN 65 + i ELSE IF i < 52 THEN 71 + i ELSE i - 4

Utf8Of(unit) ==
    CASE unit = BOM -> <<239, 187, 191>>
      [] unit = FFFD -> <<239, 191, 189>>
      [] OTHER -> <<AsciiCode(unit)>>

\* new TextEncoder().encode(str): the string as scalar values (a surrogate
\* without its partner becomes U+FFFD), each in UTF-8.
RECURSIVE TextEncode(_)
TextEncode(str) ==
    IF str = <<>> THEN <<>>
    ELSE IF Head(str) = HI /\ Len(str) >= 2 /\ str[2] = LO
    THEN <<240, 159, 152, 128>> \o TextEncode(Tail(Tail(str)))
    ELSE IF Head(str) \in {HI, LO}
    THEN Utf8Of(FFFD) \o TextEncode(Tail(str))
    ELSE Utf8Of(Head(str)) \o TextEncode(Tail(str))

\* UTF-8 decoding, error mode "replacement": bytes that are no sequence of
\* the alphabet above decode to U+FFFD.
RECURSIVE DecodeUtf8(_)
DecodeUtf8(bytes) ==
    IF bytes = <<>> THEN <<>>
    ELSE IF bytes[1] = 97 THEN <<"a">> \o DecodeUtf8(Tail(bytes))
    ELSE IF bytes[1] = 35 THEN <<"#">> \o DecodeUtf8(Tail(bytes))
    ELSE IF Len(bytes) >= 3 /\ SubSeq(bytes, 1, 3) = <<239, 187, 191>>
    THEN <<BOM>> \o DecodeUtf8(SubSeq(bytes, 4, Len(bytes)))
    ELSE IF Len(bytes) >= 3 /\ SubSeq(bytes, 1, 3) = <<239, 191, 189>>
    THEN <<FFFD>> \o DecodeUtf8(SubSeq(bytes, 4, Len(bytes)))
    ELSE IF Len(bytes) >= 4 /\ SubSeq(bytes, 1, 4) = <<240, 159, 152, 128>>
    THEN <<HI, LO>> \o DecodeUtf8(SubSeq(bytes, 5, Len(bytes)))
    ELSE <<FFFD>> \o DecodeUtf8(Tail(bytes))

\* new TextDecoder().decode(buffer): ignoreBOM is left at its default, false,
\* so a byte order mark at the start of the buffer is consumed.
\* (variant: a decoder built with ignoreBOM: true)
TextDecode(bytes) ==
    IF Len(bytes) >= 3 /\ SubSeq(bytes, 1, 3) = <<239, 187, 191>>
    THEN DecodeUtf8(SubSeq(bytes, 4, Len(bytes)))
    ELSE DecodeUtf8(bytes)

\* btoa(binary)
RECURSIVE btoa(_)
btoa(bytes) ==
    IF bytes = <<>> THEN <<>>
    ELSE IF Len(bytes) = 1
    THEN LET n == bytes[1] * 65536
         IN  <<B64[(n \div 262144) + 1], B64[((n \div 4096) % 64) + 1], "=", "=">>
    ELSE IF Len(bytes) = 2
    THEN LET n == bytes[1] * 65536 + bytes[2] * 256
         IN  <<B64[(n \div 262144) + 1], B64[((n \div 4096) % 64) + 1],
               B64[((n \div 64) % 64) + 1], "=">>
    ELSE LET n == bytes[1] * 65536 + bytes[2] * 256 + bytes[3]
         IN  <<B64[(n \div 262144) + 1], B64[((n \div 4096) % 64) + 1],
               B64[((n \div 64) % 64) + 1], B64[(n % 64) + 1]>>
             \o btoa(SubSeq(bytes, 4, Len(bytes)))

\* String.prototype.replace(/c/g, d)
Replace(chars, c, d) == [i \in 1..Len(chars) |-> IF chars[i] = c THEN d ELSE chars[i]]
NotPadding(c) == c # "="

\* arrayBufferToBase64(buffer): URL-safe, unpadded
arrayBufferToBase64(buffer) ==
    SelectSeq(Replace(Replace(btoa(buffer), "+", "-"), "/", "_"), NotPadding)

\* atob(data) for data of a length that is a multiple of 4: the bytes, or
\* the failure InvalidCharacterError.
RECURSIVE AtobBytes(_)
AtobBytes(chars) ==
    IF chars = <<>> THEN <<>>
    ELSE LET pad3 == chars[3] = "="
             pad4 == chars[4] = "="
             n == B64Index(chars[1]) * 262144 + B64Index(chars[2]) * 4096
                  + (IF pad3 THEN 0 ELSE B64Index(chars[3]) * 64)
                  + (IF pad4 THEN 0 ELSE B64Index(chars[4]))
             three == <<n \div 65536, (n \div 256) % 256, n % 256>>
         IN  (IF pad3 THEN SubSeq(three, 1, 1)
              ELSE IF pad4 THEN SubSeq(three, 1, 2) ELSE three)
             \o AtobBytes(SubSeq(chars, 5, Len(chars)))
AtobValid(chars) ==
    /\ Len(chars) % 4 = 0
    /\ \A i \in 1..Len(chars) :
          \/ B64Index(chars[i]) >= 0
          \/ /\ chars[i] = "="
             /\ i >= Len(chars) - 1
             /\ i >= 3
             /\ \A j \in i..Len(chars) : chars[j] = "="
atob(chars) ==
    IF AtobValid(chars) THEN [ok |-> TRUE, bytes |-> AtobBytes(chars)]
    ELSE [ok |-> FALSE, bytes |-> <<>>]

\* base64ToArrayBuffer(base64)
\* (variant: the string handed to atob as it came, padded)
base64ToArrayBufferStandard(base64) ==
    atob(base64 \o [i \in 1..((4 - (Len(base64) % 4)) % 4) |-> "="])
base64ToArrayBuffer(base64) ==
    LET standardBase64 == Replace(Replace(base64, "-", "+"), "_", "/")
        padding == [i \in 1..((4 - (Len(standardBase64) % 4)) % 4) |-> "="]
    IN  atob(standardBase64 \o padding)

\* crypto.subtle.encrypt / decrypt with AES-GCM is the platform's; it is kept
\* here as a reversible byte substitution that depends on the key and the iv,
\* followed by a tag over key, iv and data.  The tag is, like GHASH, a
\* polynomial in the bytes, evaluated at one point per tag byte.
RECURSIVE SumOf(_)
SumOf(bytes) == IF bytes = <<>> THEN 0 ELSE Head(bytes) + SumOf(Tail(bytes))
KeyStream(key, iv, i) ==
    (key[((i - 1) % Len(key)) + 1] + iv[((i - 1) % Len(iv)) + 1] + i) % 256
RECURSIVE Poly(_, _)
Poly(bytes, x) ==
    IF bytes = <<>> THEN 0
    ELSE (Head(bytes) + 1 + x * Poly(Tail(bytes), x)) % 65521
TagOf(key, iv, data) ==
    [j \in 1..TagBytes |-> Poly(<<SumOf(key) % 256>> \o iv \o data, j + 1) % 256]
AesGcmEncrypt(key, iv, data) ==
    [i \in 1..Len(data) |-> (data[i] + KeyStream(key, iv, i)) % 256] \o TagOf(key, iv, data)
AesGcmDecrypt(key, iv, encrypted) ==
    IF Len(encrypted) < TagBytes THEN [ok |-> FALSE, data |-> <<>>]
    ELSE LET n == Len(encrypted) - TagBytes
             data == [i \in 1..n |-> (encrypted[i] + 256 - KeyStream(key, iv, i)) % 256]
         IN  IF SubSeq(encrypted, n + 1, Len(encrypted)) = TagOf(key, iv, data)
             THEN [ok |-> TRUE, data |-> data]
             ELSE [ok |-> FALSE, data |-> <<>>]

\* encrypt(plaintext, key), with iv the value crypto.getRandomValues gave
\* (variant: every encryption under the iv of zeros)
encryptUnderFixedIv(plaintext, key, iv) ==
    LET zeros == [i \in 1..IV_LENGTH |-> 0]
    IN  arrayBufferToBase64(zeros \o AesGcmEncrypt(key, zeros, TextEncode(plaintext)))
encrypt(plaintext, key, iv) ==
    arrayBufferToBase64(iv \o AesGcmEncrypt(key, iv, TextEncode(plaintext)))

\* ArrayBuffer.prototype.slice(begin, end), indices from 0, clamped
Slice(buffer, begin, end) ==
    SubSeq(buffer, (IF begin > Len(buffer) THEN Len(buffer) ELSE begin) + 1,
           IF end > Len(buffer) THEN Len(buffer) ELSE end)

\* decrypt(ciphertext, key): the plaintext, or a throw
Thrown == [ok |-> FALSE, text |-> <<>>]
decrypt(ciphertext, key) ==
    LET combined == base64ToArrayBuffer(ciphertext)
    IN  IF ~combined.ok THEN Thrown
        ELSE LET iv == Slice(combined.bytes, 0, IV_LENGTH)
                 encrypted == Slice(combined.bytes, IV_LENGTH, Len(combined.bytes))
                 decrypted == AesGcmDecrypt(key, iv, encrypted)
             IN  IF decrypted.ok
                 THEN [ok |-> TRUE, text |-> TextDecode(decrypted.data)]
                 ELSE Thrown

\* exportKey(key): the raw key in URL-safe base64
exportKey(key) == arrayBufferToBase64(key)

\* importKey(keyString): the key, or a throw (of atob, or of
\* crypto.subtle.importKey on data that is not 128, 192 or 256 bits)
importKey(keyString) ==
    LET keyData == base64ToArrayBuffer(keyString)
    IN  IF keyData.ok /\ Len(keyData.bytes) * 8 \in {128, 192, KEY_LENGTH}
        THEN [ok |-> TRUE, key |-> keyData.bytes]
        ELSE [ok |-> FALSE, key |-> <<>>]

\* crypto.subtle.digest("SHA-256", data) is the platform's; it is kept here as
\* 32 bytes of a polynomial in the data, one point per byte.
DigestBytes == 32
Sha256(data) == [j \in 1..DigestBytes |-> Poly(data, j + 1) % 256]

\* hashWriteToken(token) on a token spelled out in code units
\* (variant: a hash of the first code unit alone)
hashOfFirstUnit(token) ==
    arrayBufferToBase64(Sha256(TextEncode(IF token = <<>> THEN token ELSE <<Head(token)>>)))
hashWriteTokenOfString(token) == arrayBufferToBase64(Sha256(TextEncode(token)))

\* verifyWriteToken(token, hash) on the same
verifyWriteTokenOfString(token, hash) == hashWriteTokenOfString(token) = hash

-----------------------------------------------------------------------------
(* SpecCrypto: one run of the encryption utilities.  A run encrypts a      *)
(* plaintext, may encrypt it again under the same key, may hand the        *)
(* ciphertext on altered or cut short, and decrypts what was handed on; or *)
(* it exports a key and imports it back; or it hashes a write token and    *)
(* verifies a string against the hash.                                     *)

\* Plaintexts of at most MaxPlainLen code units.
MaxPlainLen == 2
CodeUnits == {"a", "#", BOM, HI, LO}
Plaintexts == UNION {[1..n -> CodeUnits] : n \in 0..MaxPlainLen}

\* Two raw keys of KEY_LENGTH bits and two values of the random iv.
CryptoKeys ==
    { [i \in 1..(KEY_LENGTH \div 8) |-> (7 * i) % 256],
      [i \in 1..(KEY_LENGTH \div 8) |-> (11 * i + 3) % 256] }
IVs == { [i \in 1..IV_LENGTH |-> i], [i \in 1..IV_LENGTH |-> 255 - 2 * i] }

\* crypto.getRandomValues(new Uint8Array(IV_LENGTH)) in a context that drew
\* the values used before: 96 random bits, taken never to come out twice.
getRandomValues(used) == IVs \ used

\* No second ciphertext yet.
NotYet == <<"not yet">>

CrEncrypt(plaintext, key, iv) ==
    /\ cr.pc = "unused"
    /\ cr' = [pc |-> "encrypted", plaintext |-> plaintext, key |-> key, iv |-> iv,
              ciphertext |-> encrypt(plaintext, key, iv),
              again |-> NotYet, handed |-> encrypt(plaintext, key, iv),
              with |-> key, result |-> Thrown]
    /\ UNCHANGED <<now, requestLog, docs, reqs, lastCall, win, admits, nCalls, last,
                   created, rejection, editor, localStorage>>

\* A second call encrypt(plaintext, key) with the same arguments.
CrEncryptAgain ==
    /\ cr.pc = "encrypted" /\ cr.again = NotYet /\ cr.handed = cr.ciphertext
    /\ \E iv \in getRandomValues({cr.iv}) :
           cr' = [cr EXCEPT !.again = encrypt(cr.plaintext, cr.key, iv)]
    /\ UNCHANGED <<now, requestLog, docs, reqs, lastCall, win, admits, nCalls, last,
                   created, rejection, editor, localStorage>>

\* The character that follows c in the alphabet, c being a character of a
\* URL-safe string.
NextChar(c) ==
    LET standard == IF c = "-" THEN "+" ELSE IF c = "_" THEN "/" ELSE c
    IN  B64[((B64Index(standard) + 1) % 64) + 1]

\* The ways one character of a ciphertext is altered: into the next of the
\* alphabet, or into one of the two characters the URL-safe alphabet left out.
Alterations == {"next", "+", "/"}
Altered(c, how) == IF how = "next" THEN NextChar(c) ELSE how

\* Someone between encrypt and decrypt replaces one character of the
\* ciphertext,
CrAlter(i, how) ==
    /\ cr.pc = "encrypted" /\ cr.handed = cr.ciphertext /\ cr.again = NotYet
    /\ i \in 1..Len(cr.ciphertext) /\ Altered(cr.ciphertext[i], how) # cr.ciphertext[i]
    /\ cr' = [cr EXCEPT !.handed = [cr.ciphertext EXCEPT ![i] = Altered(cr.ciphertext[i], how)]]
    /\ UNCHANGED <<now, requestLog, docs, reqs, lastCall, win, admits, nCalls, last,
                   created, rejection, editor, localStorage>>

\* or cuts it short.
CrTruncate(n) ==
    /\ cr.pc = "encrypted" /\ cr.handed = cr.ciphertext /\ cr.again = NotYet
    /\ n < Len(cr.ciphertext)
    /\ cr' = [cr EXCEPT !.handed = SubSeq(cr.ciphertext, 1, n)]
    /\ UNCHANGED <<now, requestLog, docs, reqs, lastCall, win, admits, nCalls, last,
                   created, rejection, editor, localStorage>>

CrDecrypt(key) ==
    /\ cr.pc = "encrypted"
    /\ cr' = [cr EXCEPT !.pc = "decrypted", !.with = key,
                        !.result = decrypt(cr.handed, key)]
    /\ UNCHANGED <<now, requestLog, docs, reqs, lastCall, win, admits, nCalls, last,
                   created, rejection, editor, localStorage>>

\* Buffers of at most MaxBufferLen bytes, over bytes that btoa spells with
\* every kind of character.
MaxBufferLen == 3
Buffers == UNION {[1..n -> {0, 62, 251, 255}] : n \in 0..MaxBufferLen}

\* exportKey(key), and arrayBufferToBase64 of any buffer
CrExportKey(buffer) ==
    /\ cr.pc = "unused"
    /\ cr' = [pc |-> "exported", buffer |-> buffer, keyString |-> exportKey(buffer)]
    /\ UNCHANGED <<now, requestLog, docs, reqs, lastCall, win, admits, nCalls, last,
                   created, rejection, editor, localStorage>>

\* importKey(keyString), and base64ToArrayBuffer of the string
CrImportKey ==
    /\ cr.pc = "exported"
    /\ cr' = [cr EXCEPT !.pc = "imported"] @@
             [back |-> base64ToArrayBuffer(cr.keyString), imported |-> importKey(cr.keyString)]
    /\ UNCHANGED <<now, requestLog, docs, reqs, lastCall, win, admits, nCalls, last,
                   created, rejection, editor, localStorage>>

\* generateWriteToken(): random bytes in URL-safe base64.
WriteTokens == {arrayBufferToBase64(b) : b \in Buffers \ {<<>>}}
\* What is presented as a token: a token, or any other string.
Presented == WriteTokens \cup {<<>>, <<HI>>, <<FFFD>>, <<"A", BOM>>}

\* hashWriteToken(token)
CrHash(token) ==
    /\ cr.pc = "unused"
    /\ cr' = [pc |-> "hashed", token |-> token, hash |-> hashWriteTokenOfString(token)]
    /\ UNCHANGED <<now, requestLog, docs, reqs, lastCall, win, admits, nCalls, last,
                   created, rejection, editor, localStorage>>

\* verifyWriteToken(presented, hash)
CrVerify(presented) ==
    /\ cr.pc = "hashed"
    /\ cr' = [cr EXCEPT !.pc = "verified"] @@
             [presented |-> presented, verdict |-> verifyWriteTokenOfString(presented, cr.hash)]
    /\ UNCHANGED <<now, requestLog, docs, reqs, lastCall, win, admits, nCalls, last,
                   created, rejection, editor, localStorage>>

\* The longest ciphertext of the model, in characters.
MaxCipherLen == 40

NextCrypto ==
    \/ \E plaintext \in Plaintexts, key \in CryptoKeys, iv \in IVs : CrEncrypt(plaintext, key, iv)
    \/ CrEncryptAgain
    \/ \E i \in 1..MaxCipherLen, how \in Alterations : CrAlter(i, how)
    \/ \E n \in 0..MaxCipherLen : CrTruncate(n)
    \/ \E key \in CryptoKeys : CrDecrypt(key)
    \/ \E buffer \in Buffers \cup CryptoKeys : CrExportKey(buffer)
    \/ CrImportKey
    \/ \E token \in WriteTokens : CrHash(token)
    \/ \E presented \in Presented : CrVerify(presented)

SpecCrypto == Init /\ [][NextCrypto]_vars

-----------------------------------------------------------------------------
(* Claims on the encryption utilities, checked under SpecCrypto.           *)

\* C20: decrypting what encrypt returned, with the key it was encrypted
\* under, succeeds and returns the plaintext.
C20_RoundTrip ==
    (cr.pc = "decrypted" /\ cr.with = cr.key /\ cr.handed = cr.ciphertext) =>
        (cr.result.ok /\ cr.result.text = cr.plaintext)

C22_DecryptRejects ==
    (cr.pc = "decrypted" /\ (cr.with # cr.key \/ cr.handed # cr.ciphertext)) =>
        ~cr.result.ok

\* C23: base64ToArrayBuffer gives back the bytes arrayBufferToBase64 was
\* given, and importKey(exportKey(k)) is k: it decrypts what k encrypted.
C23_KeyRoundTrip ==
    cr.pc = "imported" =>
        /\ cr.back.ok /\ cr.back.bytes = cr.buffer
        /\ cr.buffer \in CryptoKeys =>
              /\ cr.imported.ok /\ cr.imported.key = cr.buffer
              /\ \A iv \in IVs :
                    decrypt(encrypt(<<"#", "a">>, cr.buffer, iv), cr.imported.key)
                        = [ok |-> TRUE, text |-> <<"#", "a">>]

\* A key was exported to a string that has a character of the URL-safe
\* alphabet and would have had padding, and imported back.
C23_Witness ==
    /\ cr.pc = "imported" /\ cr.buffer \in CryptoKeys
    /\ Len(cr.keyString) % 4 # 0
    /\ \E i \in 1..Len(cr.keyString) : cr.keyString[i] \in {"-", "_"}

\* C24: verifyWriteToken(s, hashWriteToken(t)) is true for s = t and false
\* for every other string s, t being a token of generateWriteToken.
C24_TokenVerification ==
    cr.pc = "verified" => (cr.verdict <=> cr.presented = cr.token)

\* Another token that begins like the hashed one was presented and refused.
C24_Witness ==
    /\ cr.pc = "verified" /\ ~cr.verdict
    /\ cr.presented \in WriteTokens \ {cr.token}
    /\ cr.presented[1] = cr.token[1]

-----------------------------------------------------------------------------
(* The document history (lib/document-history, part_002), kept in          *)
(* localStorage as a list of entries.                                      *)

\* useState<string | null>(null)
Null == "<null>"

\* if (value): a string that is neither null nor empty
TruthyString(value) == value # Null /\ value # ""

\* updated.slice(0, 50): the code keeps 50 entries; the model keeps the
\* shape and scales the number, and the properties are stated over the name.
HISTORY_MAX == 3

\* DocumentMetadata
Metadata(id, encryptionKey, writeToken, title, t) ==
    [id |-> id, encryptionKey |-> encryptionKey, writeToken |-> writeToken,
     title |-> title, createdAt |-> t, lastModified |-> t]

\* history.filter((d) => d.id !== id)
Without(history, id) == SelectSeq(history, LAMBDA d : d.id # id)

\* saveToHistory(doc) on the stored list: the list it stores
\* (variant: the entry added without removing the one it replaces)
saveToHistoryUnfiltered(history, doc) == Slice(<<doc>> \o history, 0, HISTORY_MAX)
\* (variant: the entry merged with the one it replaces, which keeps its
\* createdAt and, if the new entry has no token, its writeToken)
saveToHistoryMerging(history, doc) ==
    LET old == SelectSeq(history, LAMBDA d : d.id = doc.id)
        merged == IF old = <<>> THEN doc
                  ELSE [doc EXCEPT !.createdAt = old[1].createdAt,
                                   !.writeToken = IF doc.writeToken = ""
                                                  THEN old[1].writeToken ELSE doc.writeToken]
    IN  Slice(<<merged>> \o Without(history, doc.id), 0, HISTORY_MAX)
saveToHistory(history, doc) == Slice(<<doc>> \o Without(history, doc.id), 0, HISTORY_MAX)

\* removeFromHistory(id) on the stored list: the list it stores
removeFromHistory(history, id) == Without(history, id)

\* extractTitle(content) on the texts of the model, each a heading: the
\* heading without its marks.
extractTitle(content) ==
    CASE content = "# Welcome to markdown.gg" -> "Welcome to markdown.gg"
      [] content \in {"#a", BOM \o "#a"} -> "a"   \* trim() takes U+FEFF for white space
      [] content = "" -> "Untitled"

\* The entry loadFromUrl saves once the content is decrypted, page.tsx:153-160
\* (and the view page, part_005:56-63), at Date.now() = t.
LoadEntry(id, keyString, tokenString, text, t) ==
    Metadata(id, keyString, IF TruthyString(tokenString) THEN tokenString ELSE "",
             extractTitle(text), t)

-----------------------------------------------------------------------------
(* SpecHistory: saveToHistory and removeFromHistory called in any order.   *)
(* The run keeps, as history, the ids saved and not removed since, the     *)
(* most recently saved first, and the last call with the list it found.    *)

HistoryIds == {"d1", "d2", "d3", "d4", "d5"}
\* The entries the calls are made with: those a load makes, through a
\* capability with a token at time 0 and through one without at time 1.
HistoryDocs ==
    {LoadEntry(id, "k1", c[1], "#a", c[2]) : id \in HistoryIds, c \in {<<"t1", 0>>, <<Null, 1>>}}

SavedOrder == IF cr.pc = "history" THEN cr.order ELSE <<>>

HiSave(doc) ==
    /\ localStorage' = saveToHistory(localStorage, doc)
    /\ cr' = [pc |-> "history", op |-> "save", doc |-> doc, before |-> localStorage,
              order |-> <<doc.id>> \o SelectSeq(SavedOrder, LAMBDA id : id # doc.id)]
    /\ UNCHANGED <<now, requestLog, docs, reqs, lastCall, win, admits, nCalls, last,
                   created, rejection, editor>>

HiRemove(id) ==
    /\ localStorage' = removeFromHistory(localStorage, id)
    /\ cr' = [pc |-> "history", op |-> "remove", doc |-> Metadata(id, "", "", "", 0),
              before |-> localStorage,
              order |-> SelectSeq(SavedOrder, LAMBDA other : other # id)]
    /\ UNCHANGED <<now, requestLog, docs, reqs, lastCall, win, admits, nCalls, last,
                   created, rejection, editor>>

NextHistory ==
    \/ \E doc \in HistoryDocs : HiSave(doc)
    \/ \E id \in HistoryIds : HiRemove(id)

SpecHistory == Init /\ [][NextHistory]_vars

\* The ids of a list of entries, in order.
IdsOf(history) == [i \in 1..Len(history) |-> history[i].id]

\* xs can be had from ys by leaving elements out.
RECURSIVE IsSubsequence(_, _)
IsSubsequence(xs, ys) ==
    IF xs = <<>> THEN TRUE
    ELSE IF ys = <<>> THEN FALSE
    ELSE IF Head(xs) = Head(ys) THEN IsSubsequence(Tail(xs), Tail(ys))
    ELSE IsSubsequence(xs, Tail(ys))

-----------------------------------------------------------------------------
(* SpecClient: the editor page (page.tsx) in one browser tab, talking to   *)
(* the route handlers.  Each client action is the synchronous run of a     *)
(* page function up to its fetch, taken together with the handler's run up *)
(* to its first await; a handler step that responds is taken together with *)
(* the continuation of the page function that awaited the response.        *)

\* SpecClient sends at most MaxClientRequests requests.
MaxClientRequests == 3
\* and the user follows at most MaxNavigations links after opening the tab.
MaxNavigations == 1


\* page.tsx:38-78, the text of a new document
DEFAULT_CONTENT == "# Welcome to markdown.gg"
\* A string of code units as the text it spells.
RECURSIVE StringOf(_)
StringOf(units) == IF units = <<>> THEN "" ELSE Head(units) \o StringOf(Tail(units))

\* The texts of the model that are given by their code units: "#a" after a
\* U+FEFF, and "#a".
Spelled == {<<BOM, "#", "a">>, <<"#", "a">>}

\* What the user types into the editor.
Texts == {DEFAULT_CONTENT, StringOf(<<BOM, "#", "a">>)}

\* new TextDecoder().decode of new TextEncoder().encode(text), the text that
\* decrypt returns for the text encrypt was given: computed for the texts
\* given by their code units; the others are ASCII, which both leave as it is.
Recoded(text) ==
    IF \E units \in Spelled : StringOf(units) = text
    THEN StringOf(TextDecode(TextEncode(CHOOSE units \in Spelled : StringOf(units) = text)))
    ELSE text

\* The texts the editor can hold: typed, or decrypted.
EditorTexts == Texts \cup {Recoded(text) : text \in Texts}

\* exportKey(key): a key as the string the fragment carries.  Keys (43
\* characters of base64url), ids (32 of hex) and tokens (64 of hex) are
\* strings of different lengths.
KeyStrings == {"k1", "k2"}

\* encrypt(content, key) in page.tsx: the ciphertext as a term {content}key,
\* which gives neither content nor key to one who reads it.
Sealed(content, keyString) == Str("{" \o content \o "}" \o keyString, 40)

\* decrypt(encryptedContent, key) in page.tsx
Opened(encryptedContent, keyString) ==
    IF \E text \in EditorTexts : encryptedContent = Sealed(text, keyString)
    THEN [ok |-> TRUE,
          text |-> Recoded(CHOOSE text \in EditorTexts : encryptedContent = Sealed(text, keyString))]
    ELSE Thrown

\* String.prototype.split(sep) on a string given as lexemes
RECURSIVE SplitOn(_, _)
SplitOn(lexemes, sep) ==
    IF lexemes = <<>> THEN << <<>> >>
    ELSE LET rest == SplitOn(Tail(lexemes), sep)
         IN  IF Head(lexemes) = sep THEN << <<>> >> \o rest
             ELSE << <<Head(lexemes)>> \o Head(rest) >> \o Tail(rest)

\* new URLSearchParams(keyAndToken).get("write"): the value of the first
\* pair named write, a "+" in it read as a space, or null
RECURSIVE SearchParamWrite(_)
SearchParamWrite(pairs) ==
    IF pairs = <<>> THEN Null
    ELSE IF Head(pairs) # <<>> /\ Head(Head(pairs)) = "write="
    THEN Join(Replace(Tail(Head(pairs)), "+", " "))
    ELSE SearchParamWrite(Tail(pairs))


\* page.tsx:117-130, the fragment as loadFromUrl reads it
\* (variant: the two parts of the fragment taken in the other order)
ParseFragmentKeyFirst(hash) ==
    LET parts == SplitOn(hash, "#")
        keyAndToken == parts[1]
        tokenString == SearchParamWrite(SplitOn(keyAndToken, "&"))
    IN  [ id |-> Join(parts[2]),
          keyString |-> IF TruthyString(tokenString)
                        THEN Join(SplitOn(keyAndToken, "&")[1]) ELSE Join(keyAndToken),
          tokenString |-> tokenString ]
ParseFragment(hash) ==
    LET parts == SplitOn(hash, "#")
        keyAndToken == parts[2]
        tokenString == SearchParamWrite(SplitOn(keyAndToken, "&"))
    IN  [ id |-> Join(parts[1]),
          keyString |-> IF TruthyString(tokenString)
                        THEN Join(SplitOn(keyAndToken, "&")[1]) ELSE Join(keyAndToken),
          tokenString |-> tokenString ]

\* page.tsx:382, `${id}#${keyString}&write=${token}`
EditableFragment(id, keyString, token) == <<id, "#", keyString, "&", "write=", token>>

\* The fragments a tab is opened with: none, one without a "#", one with
\* nothing before the "#" and one with nothing after it, a read-only and an
\* editable capability, and an editable one whose token is empty.
Fragments ==
    { <<>>, <<"d1">>, <<"#", "k1">>, <<"d1", "#">>, <<"d1", "#", "k1">>,
      EditableFragment("d1", "k1", "t1"), <<"d2", "#", "k2", "&", "write=">> }

\* A request as fetch sends it: the method, the segments of the path, the
\* values of the query string and the JSON body.
NoBody ==
    [parsed |-> FALSE, encryptedContent |-> NoJson, writeToken |-> Absent, writeTokenHash |-> Absent]
NoRequest == [method |-> "", path |-> <<>>, query |-> <<>>, body |-> NoBody]

\* page.tsx:139 and 294, `/api/documents/${id}`
DocumentPath(id) == <<"api", "documents", id>>
\* page.tsx:353, "/api/documents"
CollectionPath == <<"api", "documents">>

\* page.tsx:356-359, JSON.stringify({ encryptedContent, writeTokenHash: tokenHash })
\* (variant: the token sent in place of its hash)
ShareBodyRawToken(encryptedContent, token) ==
    [parsed |-> TRUE, encryptedContent |-> encryptedContent,
     writeToken |-> Absent, writeTokenHash |-> token]
ShareBody(encryptedContent, token) ==
    [parsed |-> TRUE, encryptedContent |-> encryptedContent,
     writeToken |-> Absent, writeTokenHash |-> hashWriteToken(token)]

\* page.tsx:297-300, JSON.stringify({ encryptedContent, writeToken: writeToken || undefined })
SaveBody(encryptedContent, token) ==
    [parsed |-> TRUE, encryptedContent |-> encryptedContent,
     writeToken |-> IF TruthyString(token) THEN token ELSE Absent,
     writeTokenHash |-> Absent]

\* A page function waiting for the response of its fetch, with the values it
\* holds in its closure.
\* What the page held when loadFromUrl was called: history, for the claims.
NoPrior == [documentId |-> Null, encryptionKey |-> Null, writeToken |-> Null, content |-> ""]
PriorOf(e) ==
    [documentId |-> e.documentId, encryptionKey |-> e.encryptionKey,
     writeToken |-> e.writeToken, content |-> e.content]

NoOp ==
    [kind |-> "none", id |-> Null, keyString |-> Null, token |-> Null, content |-> "",
     body |-> NoBody, prior |-> NoPrior]

\* The page once mounted, page.tsx:80-102.  keys and tokens are history: the
\* key strings and the tokens the page ever held, and the number of links
\* followed.
Mounted(hash) ==
    [ pc |-> "mounted", hash |-> hash, loadDue |-> TRUE,
      documentId |-> Null, encryptionKey |-> Null, writeToken |-> Null,
      content |-> DEFAULT_CONTENT,
      isSaving |-> FALSE, isSharing |-> FALSE, isLoading |-> FALSE,
      ops |-> [s \in Slots |-> NoOp], sent |-> NoRequest,
      keys |-> {}, tokens |-> {}, navigations |-> 0 ]

\* The page is opened with a fragment; the effect of page.tsx:174 is due.
Mount(hash) ==
    /\ editor.pc = "unused"
    /\ editor' = Mounted(hash)
    /\ lastCall' = NoCall /\ last' = NoResponse
    /\ UNCHANGED <<now, requestLog, docs, reqs, win, admits, nCalls, created, rejection, cr, localStorage>>

\* The user follows another link in the tab, handleNew (window.location.hash
\* = "") or loadDocument: hashchange fires when the fragment changes.
Navigate(hash) ==
    /\ editor.pc = "mounted" /\ hash # editor.hash
    /\ editor.navigations < MaxNavigations
    /\ editor' = [editor EXCEPT !.hash = hash, !.loadDue = TRUE, !.sent = NoRequest,
                                !.navigations = @ + 1]
    /\ lastCall' = NoCall /\ last' = NoResponse
    /\ UNCHANGED <<now, requestLog, docs, reqs, win, admits, nCalls, created, rejection, cr, localStorage>>

\* <Editor onChange={setContent} readOnly={documentId !== null && !writeToken} />
Edit(text) ==
    /\ editor.pc = "mounted" /\ text # editor.content
    /\ ~(editor.documentId # Null /\ ~TruthyString(editor.writeToken))
    /\ editor' = [editor EXCEPT !.content = text, !.sent = NoRequest]
    /\ lastCall' = NoCall /\ last' = NoResponse
    /\ UNCHANGED <<now, requestLog, docs, reqs, win, admits, nCalls, created, rejection, cr, localStorage>>

\* setIsLoading, setIsSaving, setIsSharing: true at the start of the page
\* function (page.tsx:133, 287, 339), false in its finally (169, 332, 396).
Busy(e, kind, flag) ==
    CASE kind = "load" -> [e EXCEPT !.isLoading = flag]
      [] kind = "save" -> [e EXCEPT !.isSaving = flag]
      [] kind = "share" -> [e EXCEPT !.isSharing = flag]
      [] OTHER -> e

\* fetch: the request goes out and the handler runs to its first await.  A
\* rejected request is answered at once and the page function ends in its
\* catch; an admitted one leaves the page function waiting.
Fetch(e, s, request, op) ==
    editor' = [Busy(e, op.kind, reqs'[s].pc # "idle")
                  EXCEPT !.sent = request,
                         !.ops[s] = IF reqs'[s].pc # "idle" THEN op ELSE NoOp]

\* The Save button is rendered and enabled, page.tsx:536-551, and the
\* shortcut calls handleSave, page.tsx:187.
\* (variant: the button offered for every loaded document)
SaveOfferedWithoutToken(e) ==
    TruthyString(e.documentId) /\ ~e.isSaving /\ ~e.isLoading
SaveOffered(e) ==
    TruthyString(e.documentId) /\ TruthyString(e.writeToken) /\ ~e.isSaving /\ ~e.isLoading

\* The Share button is rendered and enabled, page.tsx:536, 567-570.
ShareOffered(e) == ~TruthyString(e.documentId) /\ ~e.isSharing /\ ~e.isLoading

\* loadFromUrl, page.tsx:106-139
LoadFromUrl(s, headers) ==
    /\ editor.pc = "mounted" /\ editor.loadDue
    /\ LET e == [editor EXCEPT !.loadDue = FALSE, !.sent = NoRequest]
       IN  IF editor.hash = <<>>
           THEN /\ editor' = [e EXCEPT !.documentId = Null, !.encryptionKey = Null,
                                       !.writeToken = Null, !.content = DEFAULT_CONTENT]
                /\ lastCall' = NoCall /\ last' = NoResponse
                /\ s = 1
                /\ UNCHANGED <<now, requestLog, docs, reqs, win, admits, nCalls, created, rejection>>
           ELSE IF Len(SplitOn(editor.hash, "#")) < 2
           THEN /\ editor' = e
                /\ lastCall' = NoCall /\ last' = NoResponse
                /\ s = 1
                /\ UNCHANGED <<now, requestLog, docs, reqs, win, admits, nCalls, created, rejection>>
           ELSE LET parsed == ParseFragment(editor.hash)
                    request == [method |-> "GET", path |-> DocumentPath(parsed.id),
                                query |-> <<>>, body |-> NoBody]
                    held == [e EXCEPT !.documentId = parsed.id,
                                      !.encryptionKey = parsed.keyString,
                                      !.writeToken = parsed.tokenString,
                                      !.keys = @ \cup ({parsed.keyString} \ {""}),
                                      !.tokens = @ \cup ({parsed.tokenString} \ {Null, ""})]
                IN  IF parsed.id = ""
                    THEN \* /api/documents/ names no document: no handler of
                         \* [id] runs and the response is not ok
                         /\ editor' = [held EXCEPT !.sent = request, !.isLoading = FALSE]
                         /\ lastCall' = NoCall /\ last' = NoResponse
                         /\ s = 1
                         /\ UNCHANGED <<now, requestLog, docs, reqs, win, admits, nCalls,
                                        created, rejection>>
                    ELSE /\ nCalls < MaxClientRequests
                         /\ GetStart(s, parsed.id, headers)
                         /\ QuietLimiter
                         /\ Fetch(held, s, request,
                                  [NoOp EXCEPT !.kind = "load", !.id = parsed.id,
                                               !.keyString = parsed.keyString,
                                               !.token = parsed.tokenString,
                                               !.prior = PriorOf(editor)])
    /\ UNCHANGED <<cr, localStorage>>

\* handleSave, page.tsx:283-301, called where Save is offered
HandleSave(s, headers) ==
    /\ editor.pc = "mounted"
    /\ SaveOffered(editor)
    /\ TruthyString(editor.documentId) /\ TruthyString(editor.encryptionKey)
    /\ nCalls < MaxClientRequests
    /\ LET body == SaveBody(Sealed(editor.content, editor.encryptionKey), editor.writeToken)
       IN  /\ PutStart(s, editor.documentId, headers)
           /\ QuietLimiter
           /\ Fetch(editor, s,
                    [method |-> "PUT", path |-> DocumentPath(editor.documentId),
                     query |-> <<>>, body |-> body],
                    [NoOp EXCEPT !.kind = "save", !.id = editor.documentId,
                                 !.keyString = editor.encryptionKey,
                                 !.token = editor.writeToken,
                                 !.content = editor.content, !.body = body])
    /\ UNCHANGED <<cr, localStorage>>

\* handleShare, page.tsx:337-360, with the key and the token it generated,
\* called where Share is offered
HandleShare(s, headers, keyString, token) ==
    /\ editor.pc = "mounted"
    /\ ShareOffered(editor)
    /\ nCalls < MaxClientRequests
    /\ LET body == ShareBody(Sealed(editor.content, keyString), token)
       IN  /\ PostStart(s, headers)
           /\ QuietLimiter
           /\ Fetch([editor EXCEPT !.keys = @ \cup {keyString}, !.tokens = @ \cup {token}],
                    s,
                    [method |-> "POST", path |-> CollectionPath, query |-> <<>>, body |-> body],
                    [NoOp EXCEPT !.kind = "share", !.keyString = keyString,
                                 !.token = token, !.content = editor.content,
                                 !.body = body])
    /\ UNCHANGED <<cr, localStorage>>

\* What a page function does with the response it awaited: handleShare moves
\* to the new document (page.tsx:362-382), loadFromUrl decrypts and shows the
\* content (page.tsx:140-150); everything else ends in a toast.
Settle(e, op, response) ==
    IF op.kind = "share" /\ response.status = 201
    THEN LET hash == EditableFragment(response.id, op.keyString, op.token)
         IN  [e EXCEPT !.hash = hash, !.loadDue = @ \/ hash # e.hash, !.isSharing = FALSE]
    ELSE IF op.kind = "load" /\ response.status = 200
    THEN LET decrypted == Opened(response.content, op.keyString)
         IN  IF decrypted.ok
             THEN [e EXCEPT !.content = decrypted.text, !.isLoading = FALSE]
             ELSE [e EXCEPT !.isLoading = FALSE]
    ELSE Busy(e, op.kind, FALSE)

\* The history after the page function saw the response: each of the three
\* calls saveToHistory once its response is ok and, for a load, once the
\* content is decrypted (page.tsx:152-160, 308-316, 368-377).
Recorded(history, op, response) ==
    IF op.kind = "share" /\ response.status = 201
    THEN saveToHistory(history,
                       Metadata(response.id, op.keyString, op.token, extractTitle(op.content), now))
    ELSE IF op.kind = "load" /\ response.status = 200
            /\ Opened(response.content, op.keyString).ok
    THEN saveToHistory(history,
                       LoadEntry(op.id, op.keyString, op.token,
                                 Opened(response.content, op.keyString).text, now))
    ELSE IF op.kind = "save" /\ response.status = 200
    THEN saveToHistory(history,
                       Metadata(op.id, op.keyString,
                                IF TruthyString(op.token) THEN op.token ELSE "",
                                extractTitle(op.content), now))
    ELSE history

\* A handler step, and the page function's continuation if the step responded.
Continue(s) ==
    /\ editor.pc = "mounted"
    /\ editor' = IF reqs'[s].pc = "idle"
                 THEN Settle([editor EXCEPT !.sent = NoRequest, !.ops[s] = NoOp],
                             editor.ops[s], last')
                 ELSE [editor EXCEPT !.sent = NoRequest]
    /\ localStorage' = IF reqs'[s].pc = "idle"
                       THEN Recorded(localStorage, editor.ops[s], last')
                       ELSE localStorage
    /\ QuietLimiter
    /\ UNCHANGED cr

ClientHeaderSets == DocHeaderSets

NextClient ==
    \/ \E hash \in Fragments : Mount(hash)
    \/ \E hash \in Fragments : Navigate(hash)
    \/ \E text \in Texts : Edit(text)
    \/ \E s \in Slots, h \in ClientHeaderSets : LoadFromUrl(s, h)
    \/ \E s \in Slots, h \in ClientHeaderSets : HandleSave(s, h)
    \/ \E s \in Slots, h \in ClientHeaderSets, k \in KeyStrings, t \in Tokens :
           HandleShare(s, h, k, t)
    \/ \E s \in Slots, id \in Ids : PostJson(s, editor.ops[s].body, id) /\ Continue(s)
    \/ \E s \in Slots : PostInsert(s) /\ Continue(s)
    \/ \E s \in Slots : GetSelect(s) /\ Continue(s)
    \/ \E s \in Slots : PutJson(s, editor.ops[s].body) /\ Continue(s)
    \/ \E s \in Slots : PutSelect(s) /\ Continue(s)
    \/ \E s \in Slots : PutUpdate(s) /\ Continue(s)

SpecClient == Init /\ [][NextClient]_vars

-----------------------------------------------------------------------------
(* Claims on what leaves the browser, checked under SpecClient.            *)

\* What the server reads off a request: the segments of its path, the values
\* of its query string and the values of the fields of its body.
InPath(request) == {request.path[i] : i \in DOMAIN request.path}
InQuery(request) == {request.query[i] : i \in DOMAIN request.query}
InBody(request) ==
    {request.body.encryptedContent.text, request.body.writeToken, request.body.writeTokenHash}
Exposed(request) == InPath(request) \cup InQuery(request) \cup InBody(request)

\* What a row of the documents table holds.
RowFields(row) == {row.id, row.encryptedContent.text, row.writeTokenHash}

\* C12: no key string, whether one the page generated or one a fragment
\* carried, is in the path, the query string or the body of a request the
\* page sends for share, load or save, and no row of the documents table
\* holds one.
C12_KeyNeverLeaves ==
    editor.pc = "mounted" =>
        \A k \in KeyStrings \cup editor.keys :
            /\ k \notin Exposed(editor.sent)
            /\ \A row \in docs : k \notin RowFields(row)

\* The page saves a document it loaded with a key: the request is out and the
\* row it is about is stored.
C12_Witness ==
    /\ editor.pc = "mounted"
    /\ editor.sent.method = "PUT"
    /\ editor.encryptionKey \in KeyStrings
    /\ editor.sent.body.encryptedContent = Sealed(editor.content, editor.encryptionKey)
    /\ \E row \in docs : row.id = editor.documentId

\* C13 as stated: no request carries a raw write token and no row holds one.
C13_NoRawTokenSent ==
    editor.pc = "mounted" =>
        \A t \in Tokens \cup editor.tokens :
            /\ t \notin Exposed(editor.sent)
            /\ \A row \in docs : t \notin RowFields(row)

\* C13, amended: no row holds a raw write token, no path and no query string
\* carries one, the body of the create request carries the hash of the token
\* the page generated and not the token, and the one place a raw token is sent
\* in is the writeToken field of the body of the update request.
C13_RawTokenOnlyInUpdateBody ==
    editor.pc = "mounted" =>
        /\ \A t \in Tokens \cup editor.tokens :
              /\ \A row \in docs : t \notin RowFields(row)
              /\ t \notin InPath(editor.sent) \cup InQuery(editor.sent)
              /\ t # editor.sent.body.encryptedContent.text
              /\ t # editor.sent.body.writeTokenHash
              /\ editor.sent.method # "PUT" => t # editor.sent.body.writeToken
        /\ editor.sent.method = "POST" =>
              \E t \in editor.tokens : editor.sent.body.writeTokenHash = hashWriteToken(t)
        /\ (editor.sent.method = "PUT" /\ TruthyString(editor.writeToken)) =>
              editor.sent.body.writeToken = editor.writeToken

\* The page saves the document it shared: the update request carries the
\* token the share generated, and the row is stored.
C13_Witness ==
    /\ editor.pc = "mounted"
    /\ editor.sent.method = "PUT"
    /\ editor.sent.body.writeToken \in Tokens
    /\ editor.hash = EditableFragment(editor.documentId, editor.encryptionKey, editor.writeToken)
    /\ \E row \in docs : row.id = editor.documentId /\ row.createdAt = now

FirstEntry(value) ==
    LET commas == {i \in DOMAIN value : value[i] = ","}
    IN  IF commas = {} THEN value
        ELSE SubSeq(value, 1, (CHOOSE i \in commas : \A j \in commas : i <= j) - 1)
Stripped(value) ==
    LET solid == {i \in DOMAIN value : value[i] # " "}
    IN  IF solid = {} THEN <<>>
        ELSE SubSeq(value, CHOOSE i \in solid : \A j \in solid : i <= j,
                           CHOOSE i \in solid : \A j \in solid : i >= j)
\* The address the headers of a request stand for.
AddressOf(headers) ==
    IF headers.xff.present /\ headers.xff.value # <<>>
    THEN StringOf(Stripped(FirstEntry(headers.xff.value)))
    ELSE IF headers.xri.present /\ headers.xri.value # <<>>
    THEN StringOf(Stripped(headers.xri.value))
    ELSE "unknown"

\* C38: the limiter is called for the first entry of X-Forwarded-For without
\* the blanks around it when the header is there and not empty, else for
\* X-Real-IP without the blanks around it, else for "unknown"; the creates
\* that carry neither header are all counted under "unknown", in one counter,
\* and so are the reads.
C38_ClientIp ==
    cr.pc = "requests" =>
        /\ lastCall # NoCall =>
              /\ lastCall.endpoint = cr.seen[Len(cr.seen)][1]
              /\ lastCall.identifier = AddressOf(cr.seen[Len(cr.seen)][2])
        /\ \A endpoint \in {"create_document", "get_document"} :
              LET bare == {i \in DOMAIN cr.seen :
                              /\ cr.seen[i][1] = endpoint
                              /\ ~cr.seen[i][2].xff.present /\ ~cr.seen[i][2].xri.present}
                  nameless == {i \in DOMAIN cr.seen :
                                  /\ cr.seen[i][1] = endpoint
                                  /\ AddressOf(cr.seen[i][2]) = "unknown"}
                  key == RateLimitKey("unknown", endpoint)
              IN  /\ bare \subseteq nameless
                  /\ nameless # {} =>
                        (Has(requestLog, key) /\ Get(requestLog, key).count = Cardinality(nameless))

\* C38 witness: after a create from behind a proxy chain, the second of two
\* creates without either header is turned away on the count of the first.
C38_Witness ==
    /\ cr.pc = "requests" /\ Len(cr.seen) = 3
    /\ cr.seen[1][1] = "create_document" /\ Len(cr.seen[1][2].xff.value) > 1
    /\ \A i \in {2, 3} :
          /\ cr.seen[i][1] = "create_document"
          /\ ~cr.seen[i][2].xff.present /\ ~cr.seen[i][2].xri.present
    /\ lastCall.identifier = "unknown"
    /\ ~lastCall.result.success

\* C26: a fragment with nothing before its "#" or nothing after it is not
\* taken for a capability and no document is fetched for it.
C26_MalformedRejected ==
    (editor.pc = "mounted" /\ editor.sent.method = "GET") =>
        (editor.documentId # "" /\ editor.encryptionKey # "")

\* No link: the null the two functions return.
NoLink == <<>>

\* getReadOnlyUrl(), page.tsx:231-234, on the state of the page: the link as
\* lexemes (variant: the token appended when one is held)
getReadOnlyUrlWithToken(e) ==
    IF ~TruthyString(e.documentId) \/ ~TruthyString(e.encryptionKey) THEN NoLink
    ELSE <<"origin", "/view/", e.documentId, "#", e.encryptionKey>>
         \o (IF TruthyString(e.writeToken) THEN <<"&", "write=", e.writeToken>> ELSE <<>>)
getReadOnlyUrl(e) ==
    IF ~TruthyString(e.documentId) \/ ~TruthyString(e.encryptionKey) THEN NoLink
    ELSE <<"origin", "/view/", e.documentId, "#", e.encryptionKey>>

\* getEditableUrl(), page.tsx:237-240
getEditableUrl(e) ==
    IF ~TruthyString(e.documentId) \/ ~TruthyString(e.encryptionKey)
       \/ ~TruthyString(e.writeToken)
    THEN NoLink
    ELSE <<"origin", "/#", e.documentId, "#", e.encryptionKey, "&", "write=", e.writeToken>>

\* The lexemes of a link.
LexemesOf(link) == {link[i] : i \in 1..Len(link)}

\* C29: in every state of the page, the read-only link, when there is one,
\* holds the document id and the key and holds neither the token the page
\* holds nor any token or write parameter; the editable link exists exactly
\* when id, key and token are held, and holds the three.
C29_LinksCarry ==
    editor.pc = "mounted" =>
        LET readOnly == getReadOnlyUrl(editor)
            editable == getEditableUrl(editor)
        IN  /\ readOnly # NoLink =>
                  /\ editor.documentId \in LexemesOf(readOnly)
                  /\ editor.encryptionKey \in LexemesOf(readOnly)
                  /\ editor.writeToken \notin LexemesOf(readOnly)
                  /\ LexemesOf(readOnly) \cap (Tokens \cup {"write="}) = {}
            /\ editable # NoLink => TruthyString(editor.writeToken)
            /\ editable # NoLink =>
                  /\ editor.documentId \in LexemesOf(editable)
                  /\ editor.encryptionKey \in LexemesOf(editable)
                  /\ editor.writeToken \in LexemesOf(editable)
            /\ (readOnly # NoLink /\ TruthyString(editor.writeToken)) => editable # NoLink

\* The page holds a token and both links exist.
C29_Witness ==
    /\ editor.pc = "mounted" /\ TruthyString(editor.writeToken)
    /\ getReadOnlyUrl(editor) # NoLink /\ getEditableUrl(editor) # NoLink

\* The document of a load was written once, by a share of text under the key
\* of the load.
SharedAs(op, text) ==
    /\ op.kind = "load" /\ Has(created, op.id)
    /\ Get(created, op.id).writes = <<Sealed(text, op.keyString)>>

\* The load of slot s ends in this step, its response read.
LoadSettles(s) ==
    /\ editor.pc = "mounted" /\ editor.ops[s].kind = "load"
    /\ editor'.ops[s].kind = "none"

\* C28: a load of a document that a share of the text s created, with the key
\* of the share, is answered with the blob the share sent and displays s.
C28_EndToEnd ==
    [][\A s \in Slots, text \in EditorTexts :
          (LoadSettles(s) /\ SharedAs(editor.ops[s], text) /\ last'.status = 200) =>
              /\ last'.content = Sealed(text, editor.ops[s].keyString)
              /\ editor'.content = text]_vars

\* The same load is answered with the blob of the share and displays what
\* TextDecoder gives for what TextEncoder gave for s.
C28_EndToEndRecoded ==
    [][\A s \in Slots, text \in EditorTexts :
          (LoadSettles(s) /\ SharedAs(editor.ops[s], text) /\ last'.status = 200) =>
              /\ last'.content = Sealed(text, editor.ops[s].keyString)
              /\ editor'.content = Recoded(text)]_vars

\* The load of slot s ends in this step without content to show: the
\* response is not ok, or what it carries does not decrypt under the key.
LoadFails(s) ==
    /\ LoadSettles(s)
    /\ \/ last'.status # 200
       \/ ~Opened(last'.content, editor.ops[s].keyString).ok

\* Nothing else of the page ran since the load of slot s began: no other page
\* function waits and no hashchange is due.
OnlyLoad(s) ==
    /\ ~editor.loadDue
    /\ \A s2 \in Slots \ {s} : editor.ops[s2].kind = "none"
    /\ editor.documentId = editor.ops[s].id

\* C35: when a load fails, the page holds the documentId, the encryptionKey
\* and the writeToken it held when the load began, and the content it shows
\* stays.
C35_FailedLoadRestores ==
    [][\A s \in Slots :
          (LoadFails(s) /\ OnlyLoad(s)) =>
              /\ editor'.documentId = editor.ops[s].prior.documentId
              /\ editor'.encryptionKey = editor.ops[s].prior.encryptionKey
              /\ editor'.writeToken = editor.ops[s].prior.writeToken
              /\ editor'.content = editor.content]_vars

-----------------------------------------------------------------------------
(* SpecLoads: the editor page opened on documents that are stored already, *)
(* shared earlier by a page like it: it loads them, edits and saves.       *)

\* Two rows as POST inserted them, and the capabilities their shares made.
StoredDocs ==
    { NewRow("d1", Sealed("#a", "k1"), 0), NewRow("d2", Sealed(DEFAULT_CONTENT, "k2"), 0) }
StoredFragments ==
    { EditableFragment("d1", "k1", "t1"), EditableFragment("d2", "k2", "t2") }

InitLoads ==
    /\ now = 0
    /\ requestLog = EmptyMap
    /\ lastCall = NoCall
    /\ win = EmptyMap
    /\ admits = EmptyMap
    /\ nCalls = 0
    /\ docs = StoredDocs
    /\ reqs = [s \in Slots |-> Idle]
    /\ last = NoResponse
    /\ created = {<<row.id, [hash |-> Absent, row |-> row,
                             writes |-> <<row.encryptedContent>>, raced |-> FALSE]>> :
                      row \in StoredDocs}
    /\ rejection = EmptyMap
    /\ editor = NoEditor
    /\ cr = NoRun
    /\ localStorage = <<>>

NextLoads ==
    \/ \E hash \in StoredFragments : Mount(hash)
    \/ \E hash \in StoredFragments \cup {<<>>} : Navigate(hash)
    \/ \E text \in Texts : Edit(text)
    \/ \E s \in Slots, h \in ClientHeaderSets : LoadFromUrl(s, h)
    \/ \E s \in Slots, h \in ClientHeaderSets : HandleSave(s, h)
    \/ \E s \in Slots : GetSelect(s) /\ Continue(s)
    \/ \E s \in Slots : PutJson(s, editor.ops[s].body) /\ Continue(s)
    \/ \E s \in Slots : PutSelect(s) /\ Continue(s)
    \/ \E s \in Slots : PutUpdate(s) /\ Continue(s)

SpecLoads == InitLoads /\ [][NextLoads]_vars

\* The text of the stored document id as the key opens it.
Decryption(id, keyString) ==
    Opened((CHOOSE row \in docs : row.id = id).encryptedContent, keyString)

\* With the step no load is left: none waits and no hashchange is due.
LoadsFinished(e) ==
    /\ ~e.loadDue
    /\ \A s \in Slots : e.ops[s].kind # "load"

\* C34: when the last of the loads under way ends, with its content
\* decrypted, and the document the page names is stored and opens under the
\* key the page holds, the content shown is the text of that document.
C34_LoadsSettleOnCurrent ==
    [][\A s \in Slots :
          (/\ LoadSettles(s) /\ ~LoadFails(s)
           /\ LoadsFinished(editor')
           /\ Select(docs, editor'.documentId) # {}
           /\ TruthyString(editor'.encryptionKey)
           /\ Decryption(editor'.documentId, editor'.encryptionKey).ok) =>
              editor'.content = Decryption(editor'.documentId, editor'.encryptionKey).text
      ]_vars

\* The same for a load that ends while the page still names its document.
C34_CurrentLoadShown ==
    [][\A s \in Slots :
          (/\ LoadSettles(s) /\ ~LoadFails(s)
           /\ editor.ops[s].id = editor'.documentId
           /\ editor.ops[s].keyString = editor'.encryptionKey
           /\ Select(docs, editor'.documentId) # {}) =>
              editor'.content = Decryption(editor'.documentId, editor'.encryptionKey).text
      ]_vars

-----------------------------------------------------------------------------
(* SpecCodec: one run of the capability fragment.  A document's id, key    *)
(* and token, as generateId, exportKey and generateWriteToken return them, *)
(* are put in a fragment, and the fragment is read back by the editor page *)
(* and by the view page.  A string is the sequence of its characters, with *)
(* "write=" as one.                                                        *)

HexDigits ==
    <<"0", "1", "2", "3", "4", "5", "6", "7", "8", "9", "a", "b", "c", "d", "e", "f">>

\* generateId(), with bytes the value crypto.getRandomValues gave:
\* b.toString(16).padStart(2, "0") of each byte, joined
RECURSIVE generateId(_)
generateId(bytes) ==
    IF bytes = <<>> THEN <<>>
    ELSE <<HexDigits[(Head(bytes) \div 16) + 1], HexDigits[(Head(bytes) % 16) + 1]>>
         \o generateId(Tail(bytes))

\* generateWriteToken(), with bytes the value crypto.getRandomValues gave
\* (variant: the token in the standard alphabet, padded)
generateWriteTokenStandard(bytes) == btoa(bytes)
generateWriteToken(bytes) == arrayBufferToBase64(bytes)

\* The ids, key strings and tokens of the runs; NoToken is the writeToken of
\* a history entry without one, page.tsx:156.
MaxIdBytes == 1
CodecIds == {generateId(b) : b \in {b \in Buffers : Len(b) \in 1..MaxIdBytes}}
MaxKeyBytes == 2
CodecKeys == {exportKey(b) : b \in {b \in Buffers : Len(b) \in 1..MaxKeyBytes}}
NoToken == <<>>
CodecTokenBytes == {b \in Buffers : Len(b) \in 1..MaxKeyBytes}

\* loadDocument(doc), page.tsx:412-418: the fragment of a history entry
loadDocumentHash(doc) ==
    IF doc.writeToken # NoToken
    THEN doc.id \o <<"#">> \o doc.encryptionKey \o <<"&", "write=">> \o doc.writeToken
    ELSE doc.id \o <<"#">> \o doc.encryptionKey

\* The view page's loadDocument, part_005:24-38, on the fragment of
\* /view/[id]#...: the key and the token
ViewParse(hash) ==
    LET tokenString == SearchParamWrite(SplitOn(hash, "&"))
    IN  [ keyString |-> IF TruthyString(tokenString)
                        THEN Join(SplitOn(hash, "&")[1]) ELSE Join(hash),
          tokenString |-> tokenString ]

\* The part of a fragment after its first "#".
RECURSIVE AfterFirstHash(_)
AfterFirstHash(hash) ==
    IF hash = <<>> THEN <<>>
    ELSE IF Head(hash) = "#" THEN Tail(hash) ELSE AfterFirstHash(Tail(hash))

CoEncode(id, keyString, token) ==
    /\ cr.pc = "unused"
    /\ cr' = [pc |-> "encoded", id |-> id, keyString |-> keyString, token |-> token,
              hash |-> loadDocumentHash([id |-> id, encryptionKey |-> keyString,
                                         writeToken |-> token])]
    /\ UNCHANGED <<now, requestLog, docs, reqs, lastCall, win, admits, nCalls, last,
                   created, rejection, editor, localStorage>>

\* loadFromUrl reads the fragment, and getEditableUrl or getReadOnlyUrl
\* writes what was read back into a link.
CoDecode ==
    /\ cr.pc = "encoded"
    /\ LET parsed == ParseFragment(cr.hash)
       IN  cr' = [cr EXCEPT !.pc = "decoded"] @@
                 [parsed |-> parsed,
                  viewed |-> ViewParse(AfterFirstHash(cr.hash)),
                  again |-> IF TruthyString(parsed.tokenString)
                            THEN EditableFragment(parsed.id, parsed.keyString, parsed.tokenString)
                            ELSE <<parsed.id, "#", parsed.keyString>>]
    /\ UNCHANGED <<now, requestLog, docs, reqs, lastCall, win, admits, nCalls, last,
                   created, rejection, editor, localStorage>>

NextCodec ==
    \/ \E id \in CodecIds, keyString \in CodecKeys,
          token \in {generateWriteToken(b) : b \in CodecTokenBytes} \cup {NoToken} :
           CoEncode(id, keyString, token)
    \/ CoDecode

SpecCodec == Init /\ [][NextCodec]_vars

-----------------------------------------------------------------------------
(* Claims on the capability fragment, checked under SpecCodec.             *)

\* C25: the fragment of an id, a key and a token reads back as that id, key
\* and token, the fragment of an id and a key as that id and key and no
\* token, and what was read writes the same fragment again.
C25_CapabilityRoundTrip ==
    cr.pc = "decoded" =>
        /\ cr.parsed.id = Join(cr.id)
        /\ cr.parsed.keyString = Join(cr.keyString)
        /\ cr.parsed.tokenString = (IF cr.token = NoToken THEN Null ELSE Join(cr.token))
        /\ cr.viewed.keyString = Join(cr.keyString)
        /\ cr.viewed.tokenString = cr.parsed.tokenString
        /\ Join(cr.again) = Join(cr.hash)

\* A fragment with a token that has a character of the URL-safe alphabet was
\* read back.
C25_Witness ==
    /\ cr.pc = "decoded" /\ cr.token # NoToken
    /\ \E i \in 1..Len(cr.token) : cr.token[i] \in {"-", "_"}
    /\ cr.parsed.tokenString = Join(cr.token)

====
